---- MODULE Spec2Model ----
(***************************************************************************)
(* Puzzle-record analytics and ranking engine of chessudoku_server.        *)
(*                                                                         *)
(* The state is the puzzle_records table, its SERIAL counter, the clock,   *)
(* and the last service call with its reply.  Every service method is one  *)
(* action; the SQL it issues is evaluated by the operators below.  An SQL  *)
(* ORDER BY fixes the order of rows only up to rows that are equal on the  *)
(* sort keys, so a query is an operator that yields the SET of results the *)
(* store may return, and the action picks one of them.                     *)
(***************************************************************************)
EXTENDS Integers, Sequences, FiniteSets, TLC

VARIABLES
    store,          \* the rows of puzzle_records
    nextRecordId,   \* the next value of the record_id SERIAL
    now,            \* the clock (new Date())
    call,           \* the last service call and its arguments
    reply,          \* what that call returned or threw
    locals          \* the local values of that call's handler at its return

vars == <<store, nextRecordId, now, call, reply, locals>>

(***************************************************************************)
(* Bounds and input domains                                                *)
(***************************************************************************)
MaxRecords == 3

\* an argument that the caller left out (JavaScript undefined)
Undefined == "<undefined>"

\* an absent value (null, or an omitted optional field) and a present one
None == <<>>
Some(x) == <<x>>

UpperAlnum ==
    {"A","B","C","D","E","F","G","H","I","J","K","L","M","N","O","P","Q","R",
     "S","T","U","V","W","X","Y","Z","0","1","2","3","4","5","6","7","8","9"}

\* account identifiers are character sequences, so that the format test can
\* look at their length and characters
AccountA == <<"A","B","C","1","2","3","D","E","F","4","5","6">>
AccountB == <<"X","Y","Z","7","8","9","G","H","I","0","1","2">>
AccountLower == <<"a","b","c","1","2","3","d","e","f","4","5","6">>

\* rows of the accounts table (owned by the account CRUD, fixed here)
accounts == {AccountA, AccountB}

\* the account identifiers that callers pass
AccountIds == {AccountA, AccountB, AccountLower}

\* a completion request that leaves completed_at to the server
Request(puzzleType, difficulty, timeTaken, hintCount) ==
    [puzzle_type |-> puzzleType, difficulty |-> difficulty,
     time_taken |-> timeTaken, hint_count |-> hintCount,
     completed_at |-> None]

Submission(accountId, request) == [accountId |-> accountId, request |-> request]

\* submissions of the ranking scenarios: two records of one account and
\* records of two accounts that tie on (hint_count, time_taken), fewer hints
\* with a longer time, a second difficulty and a second puzzle type
RankingSubmissions ==
    { Submission(AccountA, Request("chess_puzzle", "easy", 120, 0)),
      Submission(AccountA, Request("chess_puzzle", "easy", 80, 0)),
      Submission(AccountA, Request("chess_puzzle", "hard", 90, 2)),
      Submission(AccountA, Request("sudoku", "easy", 120, 0)),
      Submission(AccountB, Request("chess_puzzle", "easy", 80, 0)),
      Submission(AccountB, Request("chess_puzzle", "hard", 90, 2)) }

\* submissions of the best-record and statistics scenarios: the fastest
\* record is not the one with the fewest hints, and one puzzle type is a
\* name that every JavaScript object inherits
BestSubmissions ==
    { Submission(AccountA, Request("chess_puzzle", "easy", 120, 0)),
      Submission(AccountA, Request("chess_puzzle", "easy", 80, 0)),
      Submission(AccountA, Request("chess_puzzle", "hard", 60, 2)),
      Submission(AccountA, Request("sudoku", "easy", 90, 1)),
      Submission(AccountA, Request("__proto__", "hard", 80, 0)),
      Submission(AccountB, Request("chess_puzzle", "easy", 80, 0)) }

PuzzleTypeArgs == {"chess_puzzle", "sudoku"}
DifficultyArgs == {Undefined, "easy", "hard"}
LimitArgs == {0, 2, 1001}

\* the arguments of getGlobalRanking: every combination of the above, and
\* one call without a puzzle type
GlobalRankingArgs ==
    (PuzzleTypeArgs \X DifficultyArgs \X LimitArgs) \cup {<<"", Undefined, 2>>}

\* the arguments of getPersonalRanking: every combination for the two
\* accounts, and one call with a malformed account identifier
PersonalRankingArgs ==
    ({AccountA, AccountB} \X PuzzleTypeArgs \X DifficultyArgs)
        \cup {<<AccountLower, "chess_puzzle", Undefined>>}

\* a well-formed identifier that names no account
AccountUnknown == <<"N","O","S","U","C","H","A","C","C","T","0","0">>

\* a completion request with a client-supplied completed_at
RequestAt(puzzleType, difficulty, timeTaken, hintCount, completedAt) ==
    [puzzle_type |-> puzzleType, difficulty |-> difficulty,
     time_taken |-> timeTaken, hint_count |-> hintCount,
     completed_at |-> Some(completedAt)]

\* strings of 51 and of 21 characters
LongPuzzleType == "chess_puzzle_chess_puzzle_chess_puzzle_chess_puzzle"
LongDifficulty == "easy_easy_easy_easy_1"

\* a completed_at that lies ahead of every clock value the model reaches
FutureTime == 1000

\* completion requests handed to the service: the bounds themselves, values
\* beyond either bound, several violations at once, empty and overlong
\* strings, a past and a future completed_at, a malformed and an unknown
\* account
ServiceSubmissions ==
    { Submission(AccountA, Request("chess_puzzle", "easy", 0, 0)),
      Submission(AccountB, Request("chess_puzzle", "hard", 86400, 100)),
      Submission(AccountA, RequestAt("sudoku", "easy", 30, 1, 0)),
      Submission(AccountA, Request("chess_puzzle", "easy", 86401, 150)),
      Submission(AccountA, Request("chess_puzzle", "easy", -1, 0)),
      Submission(AccountA, Request("chess_puzzle", "easy", 30, 150)),
      Submission(AccountA, Request("chess_puzzle", "easy", 30, -1)),
      Submission(AccountA, Request("", "easy", 30, 0)),
      Submission(AccountA, Request(LongPuzzleType, LongDifficulty, 30, 0)),
      Submission(AccountA, RequestAt("chess_puzzle", "", 30, 101, FutureTime)),
      Submission(AccountLower, Request("chess_puzzle", "easy", 30, 150)),
      Submission(AccountUnknown, Request("chess_puzzle", "easy", 30, 150)) }

\* a JSON value of a request body where a number is expected: left out, a
\* number, or a string that spells a number
JAbsent == [kind |-> "undefined", num |-> 0]
JNum(n) == [kind |-> "number", num |-> n]
JStr(n) == [kind |-> "string", num |-> n]

Body(puzzleType, difficulty, timeTaken, hintCount, completedAt) ==
    [puzzle_type |-> puzzleType, difficulty |-> difficulty,
     time_taken |-> timeTaken, hint_count |-> hintCount,
     completed_at |-> completedAt]

\* requests to POST /api/puzzle/:account_id: the number 0 and the string "0"
\* in either numeric field, ordinary values, a value out of range, a missing
\* field, errors that only the model validation finds, an unknown account
PostRequests ==
    { Submission(AccountA, Body("chess_puzzle", "easy", JNum(50), JNum(0), None)),
      Submission(AccountA, Body("chess_puzzle", "easy", JNum(0), JNum(2), None)),
      Submission(AccountA, Body("chess_puzzle", "easy", JStr(0), JStr(0), None)),
      Submission(AccountB, Body("chess_puzzle", "easy", JNum(50), JNum(2), None)),
      Submission(AccountA, Body("chess_puzzle", "easy", JNum(50), JNum(150), None)),
      Submission(AccountA, Body("chess_puzzle", Undefined, JNum(50), JAbsent, None)),
      Submission(AccountA, Body(LongPuzzleType, "easy", JNum(50), JNum(2),
                                Some(FutureTime))),
      Submission(AccountUnknown, Body(LongPuzzleType, "easy", JNum(50), JNum(2),
                                      None)) }

\* Time is counted in ticks, TicksPerDay to a calendar day; a timestamp is a
\* number of ticks, and At(day, tick) is the tick-th instant of a day
TicksPerDay == 8
At(day, tick) == day * TicksPerDay + tick

\* the clock at the start of the windowed queries
StartTime == At(400, 0)

\* submissions of the windowed queries: two records on one day, records a
\* day apart, records 30 and 365 days back and the day before that, a record
\* stamped by the server, and a record of a second account
WindowSubmissions ==
    { Submission(AccountA, RequestAt("chess_puzzle", "easy", 100, 1, At(399, 1))),
      Submission(AccountA, RequestAt("chess_puzzle", "easy", 50, 2, At(399, 0))),
      Submission(AccountA, RequestAt("sudoku", "hard", 70, 0, At(370, 0))),
      Submission(AccountA, RequestAt("chess_puzzle", "easy", 30, 4, At(35, 0))),
      Submission(AccountA, RequestAt("chess_puzzle", "hard", 40, 3, At(34, 7))),
      Submission(AccountA, Request("sudoku", "easy", 60, 3)),
      Submission(AccountB, RequestAt("chess_puzzle", "easy", 80, 1, At(399, 1))) }

\* the arguments of getRecordsByDateRange: a day, a month, a span of exactly
\* 365 days and one tick more, an instant, and a start after the end
DateRangeArgs ==
    ({AccountA, AccountB} \X
        { <<At(399, 0), At(399, 1)>>, <<At(370, 0), At(400, 1)>>,
          <<At(35, 0), At(400, 0)>>, <<At(34, 7), At(400, 0)>>,
          <<At(399, 1), At(399, 1)>>, <<At(400, 0), At(370, 0)>> })
        \cup {<<AccountLower, <<At(399, 0), At(399, 1)>>>>}

\* the arguments of getDailyStats
DaysArgs == {0, 1, 30, 365, 1000}
DailyStatsArgs ==
    ({AccountA, AccountB} \X DaysArgs) \cup {<<AccountLower, 30>>}

\* a query-string value that spells no number
JText == [kind |-> "text", num |-> 0]

\* the query string of GET /api/puzzle/:account_id
Query(puzzleType, page, limit) ==
    [puzzle_type |-> puzzleType, difficulty |-> Undefined,
     page |-> page, limit |-> limit,
     sort_by |-> Undefined, sort_order |-> Undefined]

\* submissions of the record listing: three records of one account
ListingSubmissions ==
    { Submission(AccountA, Request("chess_puzzle", "easy", 120, 0)),
      Submission(AccountA, Request("chess_puzzle", "hard", 90, 2)),
      Submission(AccountA, Request("sudoku", "easy", 80, 1)) }

\* the requests of the record listing: pages and limits that are left out,
\* below, within and above their ranges, and not numbers
PageArgs == {JAbsent, JStr(-1), JStr(0), JStr(1), JStr(2), JStr(3), JText}
LimitQueryArgs == {JAbsent, JStr(0), JStr(1), JStr(2), JStr(101), JText}
ListingArgs ==
    { <<AccountA, Query(t, page, limit)>> :
        t \in {Undefined, "chess_puzzle"}, page \in PageArgs,
        limit \in LimitQueryArgs }
    \cup { <<AccountUnknown, Query(Undefined, JStr(2), JStr(1))>>,
           <<AccountLower, Query(Undefined, JStr(2), JStr(1))>> }

\* submissions of the threshold filters: records with and without hints,
\* two of them equal in time, and a record of a second account
FilterSubmissions ==
    { Submission(AccountA, Request("chess_puzzle", "easy", 120, 0)),
      Submission(AccountA, Request("chess_puzzle", "hard", 90, 2)),
      Submission(AccountA, Request("sudoku", "easy", 120, 1)),
      Submission(AccountB, Request("chess_puzzle", "easy", 80, 0)) }

\* the arguments of getLowHintRecords and getFastRecords: thresholds below,
\* at and above zero, with and without a puzzle type
MaxHintsArgs == {-1, 0, 1, 2}
MaxTimeArgs == {-5, 0, 80, 120}
LowHintArgs ==
    ({AccountA, AccountB} \X MaxHintsArgs \X {Undefined, "chess_puzzle"})
        \cup {<<AccountLower, 1, Undefined>>}
FastArgs ==
    ({AccountA, AccountB} \X MaxTimeArgs \X {Undefined, "chess_puzzle"})
        \cup {<<AccountLower, 80, Undefined>>}

\* a table row as the aggregator receives it
Row(recordId, accountId, puzzleType, difficulty, timeTaken, hintCount, completedAt) ==
    [record_id |-> recordId, account_id |-> accountId,
     puzzle_type |-> puzzleType, difficulty |-> difficulty,
     time_taken |-> timeTaken, hint_count |-> hintCount,
     completed_at |-> completedAt]

\* the records that calculateStats is applied to: two types and two
\* difficulties, a type that every JavaScript object inherits, totals whose
\* averages fall on and beside a half, and equal times in different groups
StatsRecords ==
    { Row(1, AccountA, "chess_puzzle", "easy", 120, 0, 1),
      Row(2, AccountA, "chess_puzzle", "easy", 80, 0, 2),
      Row(3, AccountA, "chess_puzzle", "hard", 60, 2, 3),
      Row(4, AccountA, "sudoku", "easy", 90, 1, 4),
      Row(5, AccountA, "constructor", "hard", 80, 0, 5),
      Row(6, AccountA, "sudoku", "hard", 45, 3, 6) }

\* the arrays of at most MaxRecords different records
StatsInputs ==
    { records \in UNION { [1..n -> StatsRecords] : n \in 0..MaxRecords } :
        \A i, j \in DOMAIN records : i # j => records[i] # records[j] }

(***************************************************************************)
(* SQL evaluation                                                          *)
(***************************************************************************)
Asc(col) == [col |-> col, dir |-> "ASC"]
Desc(col) == [col |-> col, dir |-> "DESC"]

\* row a sorts strictly before row b under the ORDER BY list cols
RECURSIVE RowLess(_, _, _)
RowLess(a, b, cols) ==
    IF cols = <<>> THEN FALSE
    ELSE LET c == Head(cols) IN
         IF a[c.col] = b[c.col] THEN RowLess(a, b, Tail(cols))
         ELSE IF c.dir = "ASC" THEN a[c.col] < b[c.col]
              ELSE a[c.col] > b[c.col]

\* ORDER BY over a set of table rows: every sequence of the rows in which no
\* row sorts strictly before an earlier one
RECURSIVE OrderBy(_, _)
OrderBy(rows, cols) ==
    IF rows = {} THEN {<<>>}
    ELSE UNION { { <<m>> \o rest : rest \in OrderBy(rows \ {m}, cols) } :
                 m \in { x \in rows : \A y \in rows : ~RowLess(y, x, cols) } }

\* LIMIT n
Limit(rows, n) ==
    IF n >= Len(rows) THEN rows ELSE SubSeq(rows, 1, n)

Min(a, b) == IF a <= b THEN a ELSE b
Max(a, b) == IF a >= b THEN a ELSE b

\* JavaScript truthiness of an optional string argument
Truthy(s) == s # Undefined /\ s # ""

(***************************************************************************)
(* State                                                                   *)
(***************************************************************************)
Init ==
    /\ store = {}
    /\ nextRecordId = 1
    /\ now = 1
    /\ call = [op |-> "none"]
    /\ reply = [ok |-> TRUE, value |-> None]
    /\ locals = None

\* the same with the clock at StartTime
InitWindow ==
    /\ store = {}
    /\ nextRecordId = 1
    /\ now = StartTime
    /\ call = [op |-> "none"]
    /\ reply = [ok |-> TRUE, value |-> None]
    /\ locals = None

Ok(v) == [ok |-> TRUE, value |-> v]
Err(msg) == [ok |-> FALSE, error |-> msg]

(***************************************************************************)
(* PuzzleRecord model                                                      *)
(***************************************************************************)
\* /^[A-Z0-9]{12}$/.test(accountId), preceded by the !accountId test
AccountIdFormatOk(accountId) ==
    /\ accountId # <<>>
    /\ Len(accountId) = 12
    /\ \A i \in 1..Len(accountId) : accountId[i] \in UpperAlnum

\* PuzzleRecord.fromCompletionRequest: completed_at defaults to the clock
fromCompletionRequest(accountId, request) ==
    [record_id    |-> 0,
     account_id   |-> accountId,
     puzzle_type  |-> IF Truthy(request.puzzle_type) THEN request.puzzle_type
                      ELSE "",
     difficulty   |-> IF Truthy(request.difficulty) THEN request.difficulty
                      ELSE "",
     time_taken   |-> request.time_taken,
     hint_count   |-> request.hint_count,
     completed_at |-> IF request.completed_at = None THEN now
                      ELSE request.completed_at[1]]

\* validate without the upper bound of hint_count
validate_NoHintLimit(rec) ==
    (IF rec.account_id = <<>> THEN <<"account_id_required">>
     ELSE IF ~AccountIdFormatOk(rec.account_id) THEN <<"account_id_format">>
     ELSE <<>>)
    \o (IF rec.puzzle_type = "" THEN <<"puzzle_type_required">>
        ELSE IF Len(rec.puzzle_type) > 50 THEN <<"puzzle_type_too_long">>
        ELSE <<>>)
    \o (IF rec.difficulty = "" THEN <<"difficulty_required">>
        ELSE IF Len(rec.difficulty) > 20 THEN <<"difficulty_too_long">>
        ELSE <<>>)
    \o (IF rec.time_taken < 0 THEN <<"time_taken_negative">>
        ELSE IF rec.time_taken > 86400 THEN <<"time_taken_too_long">>
        ELSE <<>>)
    \o (IF rec.hint_count < 0 THEN <<"hint_count_negative">> ELSE <<>>)
    \o (IF rec.completed_at > now THEN <<"completed_at_future">> ELSE <<>>)

\* validate with the hint_count check ahead of the time_taken check
validate_HintsBeforeTime(rec) ==
    (IF rec.account_id = <<>> THEN <<"account_id_required">>
     ELSE IF ~AccountIdFormatOk(rec.account_id) THEN <<"account_id_format">>
     ELSE <<>>)
    \o (IF rec.puzzle_type = "" THEN <<"puzzle_type_required">>
        ELSE IF Len(rec.puzzle_type) > 50 THEN <<"puzzle_type_too_long">>
        ELSE <<>>)
    \o (IF rec.difficulty = "" THEN <<"difficulty_required">>
        ELSE IF Len(rec.difficulty) > 20 THEN <<"difficulty_too_long">>
        ELSE <<>>)
    \o (IF rec.hint_count < 0 THEN <<"hint_count_negative">>
        ELSE IF rec.hint_count > 100 THEN <<"hint_count_too_many">>
        ELSE <<>>)
    \o (IF rec.time_taken < 0 THEN <<"time_taken_negative">>
        ELSE IF rec.time_taken > 86400 THEN <<"time_taken_too_long">>
        ELSE <<>>)
    \o (IF rec.completed_at > now THEN <<"completed_at_future">> ELSE <<>>)

\* PuzzleRecord.validate: the list of errors, in the order of the checks
validate(rec) ==
    (IF rec.account_id = <<>> THEN <<"account_id_required">>
     ELSE IF ~AccountIdFormatOk(rec.account_id) THEN <<"account_id_format">>
     ELSE <<>>)
    \o (IF rec.puzzle_type = "" THEN <<"puzzle_type_required">>
        ELSE IF Len(rec.puzzle_type) > 50 THEN <<"puzzle_type_too_long">>
        ELSE <<>>)
    \o (IF rec.difficulty = "" THEN <<"difficulty_required">>
        ELSE IF Len(rec.difficulty) > 20 THEN <<"difficulty_too_long">>
        ELSE <<>>)
    \o (IF rec.time_taken < 0 THEN <<"time_taken_negative">>
        ELSE IF rec.time_taken > 86400 THEN <<"time_taken_too_long">>
        ELSE <<>>)
    \o (IF rec.hint_count < 0 THEN <<"hint_count_negative">>
        ELSE IF rec.hint_count > 100 THEN <<"hint_count_too_many">>
        ELSE <<>>)
    \o (IF rec.completed_at > now THEN <<"completed_at_future">> ELSE <<>>)

(***************************************************************************)
(* PuzzleRepository                                                        *)
(***************************************************************************)
\* INSERT ... RETURNING *: the row gets the next value of the SERIAL column
addPuzzleRecord(rec) == [rec EXCEPT !.record_id = nextRecordId]

\* the columns that getGlobalRanking selects, with the window's row number
RankingRow(row, rank) ==
    [rank         |-> rank,
     account_id   |-> row.account_id,
     hint_count   |-> row.hint_count,
     time_taken   |-> row.time_taken,
     completed_at |-> row.completed_at]

\* a window that numbers the rows by time_taken alone
RowNumberOver_ByTime(rows) ==
    { [i \in 1..Len(w) |-> RankingRow(w[i], i)] :
        w \in OrderBy(rows, <<Asc("time_taken")>>) }

\* ROW_NUMBER() OVER (ORDER BY hint_count ASC, time_taken ASC): the rows that
\* pass the WHERE clause, numbered 1.. in one of their window orders
RowNumberOver(rows) ==
    { [i \in 1..Len(w) |-> RankingRow(w[i], i)] :
        w \in OrderBy(rows, <<Asc("hint_count"), Asc("time_taken")>>) }

\* the top-level ORDER BY hint_count ASC, time_taken ASC of getGlobalRanking.
\* Its input is the window's output, which already is in this order: the
\* store adds no second sort, and rows equal on both keys keep the order in
\* which the window numbered them.  Written as the insertion of each row
\* behind the rows that do not sort after it.
RECURSIVE InsertRow(_, _, _)
InsertRow(sorted, row, cols) ==
    IF sorted = <<>> THEN <<row>>
    ELSE IF RowLess(row, Head(sorted), cols) THEN <<row>> \o sorted
         ELSE <<Head(sorted)>> \o InsertRow(Tail(sorted), row, cols)

RECURSIVE OrderRows(_, _)
OrderRows(rows, cols) ==
    IF rows = <<>> THEN <<>>
    ELSE InsertRow(OrderRows(SubSeq(rows, 1, Len(rows) - 1), cols),
                   rows[Len(rows)], cols)

\* a WHERE clause that never adds the difficulty condition
RankingWhere_TypeOnly(puzzleType, difficulty) ==
    { r \in store : r.puzzle_type = puzzleType }

\* WHERE puzzle_type = $1 [AND difficulty = $2]
RankingWhere(puzzleType, difficulty) ==
    { r \in store : /\ r.puzzle_type = puzzleType
                    /\ (Truthy(difficulty) => r.difficulty = difficulty) }

\* a ranking with the two sort keys exchanged in both ORDER BY lists
Repo_getGlobalRanking_TimeFirst(puzzleType, difficulty, limit) ==
    { Limit([i \in 1..Len(w) |-> RankingRow(w[i], i)], limit) :
        w \in OrderBy(RankingWhere(puzzleType, difficulty),
                      <<Asc("time_taken"), Asc("hint_count")>>) }

\* PuzzleRepository.getGlobalRanking: the set of results the query may give
Repo_getGlobalRanking(puzzleType, difficulty, limit) ==
    { Limit(OrderRows(ranked, <<Asc("hint_count"), Asc("time_taken")>>), limit) :
        ranked \in RowNumberOver(RankingWhere(puzzleType, difficulty)) }

\* PuzzleRecord.fromDatabaseRow (the constructor): a missing column value is
\* replaced by 0 or '', a present one is copied
fromDatabaseRow(row) ==
    [record_id    |-> IF row.record_id # 0 THEN row.record_id ELSE 0,
     account_id   |-> IF row.account_id # <<>> THEN row.account_id ELSE <<>>,
     puzzle_type  |-> IF row.puzzle_type # "" THEN row.puzzle_type ELSE "",
     difficulty   |-> IF row.difficulty # "" THEN row.difficulty ELSE "",
     time_taken   |-> IF row.time_taken # 0 THEN row.time_taken ELSE 0,
     hint_count   |-> IF row.hint_count # 0 THEN row.hint_count ELSE 0,
     completed_at |-> row.completed_at]

\* PuzzleRecord.toJSON: the seven fields of the record
toJSON(rec) ==
    [record_id    |-> rec.record_id,
     account_id   |-> rec.account_id,
     puzzle_type  |-> rec.puzzle_type,
     difficulty   |-> rec.difficulty,
     time_taken   |-> rec.time_taken,
     hint_count   |-> rec.hint_count,
     completed_at |-> rec.completed_at]

\* OFFSET n
Offset(rows, n) ==
    IF n >= Len(rows) THEN <<>> ELSE SubSeq(rows, n + 1, Len(rows))

\* PuzzleRecordQueryOptions with nothing set.  A numeric option that is left
\* out is 0: the code tests both with if (options.limit), if (options.offset)
NoOptions ==
    [puzzle_type |-> Undefined, difficulty |-> Undefined,
     limit |-> 0, offset |-> 0,
     sort_by |-> Undefined, sort_order |-> Undefined,
     date_from |-> None, date_to |-> None]

\* PuzzleRepository.findByAccountId: the set of results the query may give
findByAccountId(accountId, options) ==
    LET rows == { r \in store :
                    /\ r.account_id = accountId
                    /\ (Truthy(options.puzzle_type)
                           => r.puzzle_type = options.puzzle_type)
                    /\ (Truthy(options.difficulty)
                           => r.difficulty = options.difficulty)
                    /\ (options.date_from # None
                           => r.completed_at >= options.date_from[1])
                    /\ (options.date_to # None
                           => r.completed_at <= options.date_to[1]) }
        sortBy == IF Truthy(options.sort_by) THEN options.sort_by
                  ELSE "completed_at"
        sortOrder == IF Truthy(options.sort_order) THEN options.sort_order
                     ELSE "DESC"
        page(ordered) ==
            IF options.limit # 0
                THEN Limit(IF options.offset # 0
                              THEN Offset(ordered, options.offset)
                              ELSE ordered,
                           options.limit)
                ELSE ordered
    IN  { [i \in 1..Len(page(o)) |-> fromDatabaseRow(page(o)[i])] :
            o \in OrderBy(rows, <<[col |-> sortBy, dir |-> sortOrder]>>) }

\* The names a JavaScript object literal {} inherits from Object.prototype
\* (those that occur among the inputs).  obj[name] reads the inherited value,
\* which is truthy, while the object has no own property of that name.
ObjectPrototypeKeys == {"constructor", "__proto__"}

\* obj[key] = value on a plain object: an own property, except that the key
\* __proto__ replaces the prototype and adds no property
SetProperty(obj, key, value) ==
    IF key = "__proto__" THEN obj
    ELSE [k \in DOMAIN obj \cup {key} |-> IF k = key THEN value ELSE obj[k]]

\* the forEach with best_time = record.time_taken in place of the Math.min
RECURSIVE GroupStats_LastTime(_, _, _)
GroupStats_LastTime(records, col, groups) ==
    IF records = <<>> THEN groups
    ELSE LET record == Head(records)
             key == record[col]
             fresh == [count |-> 1, best_time |-> record.time_taken,
                       total_hints |-> record.hint_count]
         IN  IF key \in DOMAIN groups
                 THEN GroupStats_LastTime(Tail(records), col,
                        [groups EXCEPT ![key] =
                            [count |-> @.count + 1,
                             best_time |-> record.time_taken,
                             total_hints |-> @.total_hints + record.hint_count]])
             ELSE IF key \in ObjectPrototypeKeys
                 THEN GroupStats_LastTime(Tail(records), col, groups)
             ELSE GroupStats_LastTime(Tail(records), col,
                                      SetProperty(groups, key, fresh))

\* the forEach of calculateStats over one grouping column: groups is the
\* object built so far, a function on its own property names
RECURSIVE GroupStats(_, _, _)
GroupStats(records, col, groups) ==
    IF records = <<>> THEN groups
    ELSE LET record == Head(records)
             key == record[col]
             \* if (!groups[key]) groups[key] = {count: 0, best_time: Infinity,
             \* total_hints: 0}, then the three updates; Math.min(Infinity, t) = t
             fresh == [count |-> 1, best_time |-> record.time_taken,
                       total_hints |-> record.hint_count]
         IN  IF key \in DOMAIN groups
                 THEN GroupStats(Tail(records), col,
                        [groups EXCEPT ![key] =
                            [count |-> @.count + 1,
                             best_time |-> Min(@.best_time, record.time_taken),
                             total_hints |-> @.total_hints + record.hint_count]])
             ELSE IF key \in ObjectPrototypeKeys
                 \* the inherited value is truthy: no group is created, and
                 \* the updates are made on the inherited object
                 THEN GroupStats(Tail(records), col, groups)
             ELSE GroupStats(Tail(records), col, SetProperty(groups, key, fresh))

\* records.reduce((sum, r) => sum + r[col], 0)
RECURSIVE SumOf(_, _)
SumOf(records, col) ==
    IF records = <<>> THEN 0
    ELSE Head(records)[col] + SumOf(Tail(records), col)

\* the time of the first record instead of the minimum
MinTime_First(records) == records[1].time_taken

\* Math.min(...records.map(r => r.time_taken)) of a non-empty array
RECURSIVE MinTime(_)
MinTime(records) ==
    IF Len(records) = 1 THEN records[1].time_taken
    ELSE Min(records[1].time_taken, MinTime(Tail(records)))

\* Math.floor in place of Math.round
RoundDiv_Floor(a, b) == a \div b

\* Math.round(a / b) for a >= 0, b > 0: the quotient rounded half up
RoundDiv(a, b) == (2 * a + b) \div (2 * b)

\* PuzzleRecord.calculateStats
calculateStats(records) ==
    IF Len(records) = 0
        THEN [total_puzzles |-> 0, total_time |-> 0, average_time |-> 0,
              best_time |-> 0, total_hints |-> 0, average_hints |-> 0,
              by_difficulty |-> <<>>, by_type |-> <<>>]
    ELSE LET total_puzzles == Len(records)
             total_time == SumOf(records, "time_taken")
             total_hints == SumOf(records, "hint_count")
         IN  [total_puzzles |-> total_puzzles,
              total_time    |-> total_time,
              average_time  |-> RoundDiv(total_time, total_puzzles),
              best_time     |-> MinTime(records),
              total_hints   |-> total_hints,
              average_hints |-> RoundDiv(total_hints, total_puzzles),
              by_difficulty |-> GroupStats(records, "difficulty", <<>>),
              by_type       |-> GroupStats(records, "puzzle_type", <<>>)]

\* PuzzleRepository.calculateStatsByAccountId
calculateStatsByAccountId(accountId) ==
    { calculateStats(records) : records \in findByAccountId(accountId, NoOptions) }

\* WHERE account_id = $1
RowsOfAccount(accountId) == { r \in store : r.account_id = accountId }

\* a LIMIT 1 query that sorts by the first key of its ORDER BY list only
FirstRow_FirstKeyOnly(rows, cols) ==
    { IF o = <<>> THEN None ELSE Some(fromDatabaseRow(o[1])) :
        o \in OrderBy(rows, <<cols[1]>>) }

\* SELECT ... ORDER BY cols LIMIT 1, read as rows.length > 0 ? row[0] : null
FirstRow(rows, cols) ==
    { IF o = <<>> THEN None ELSE Some(fromDatabaseRow(o[1])) :
        o \in OrderBy(rows, cols) }

\* SELECT DISTINCT ON (col) ... ORDER BY col, hint_count ASC, time_taken ASC:
\* for every value of col the first row of its group
DistinctOn(rows, col) ==
    LET values == { r[col] : r \in rows }
        group(v) == { r \in rows : r[col] = v }
        firsts(v) == { o[1] : o \in OrderBy(group(v),
                          <<Asc("hint_count"), Asc("time_taken")>>) }
    IN  { { f[v] : v \in values } :
            f \in { g \in [values -> rows] : \A v \in values : g[v] \in firsts(v) } }

\* rows.forEach(row => { obj[row[col]] = PuzzleRecord.fromDatabaseRow(row) });
\* the rows have distinct values of col, so their order does not matter
RECURSIVE AssignRows(_, _, _)
AssignRows(obj, rows, col) ==
    IF rows = {} THEN obj
    ELSE LET row == CHOOSE r \in rows : TRUE
         IN  AssignRows(SetProperty(obj, row[col], fromDatabaseRow(row)),
                        rows \ {row}, col)

\* PuzzleRepository.getBestRecords
Repo_getBestRecords(accountId) ==
    { [bestTime |-> bestTime, fewestHints |-> fewestHints,
       bestByType |-> bestByType, bestByDifficulty |-> bestByDifficulty] :
        bestTime \in FirstRow(RowsOfAccount(accountId), <<Asc("time_taken")>>),
        fewestHints \in FirstRow(RowsOfAccount(accountId),
                                 <<Asc("hint_count"), Asc("time_taken")>>),
        bestByType \in
            { AssignRows(<<>>, rows, "puzzle_type") :
                rows \in DistinctOn(RowsOfAccount(accountId), "puzzle_type") },
        bestByDifficulty \in
            { AssignRows(<<>>, rows, "difficulty") :
                rows \in DistinctOn(RowsOfAccount(accountId), "difficulty") } }

\* BaseRepository.findById, delete: WHERE id = $1.  The puzzle_records
\* table has no column id (its key is record_id), so the store rejects the
\* statement and the query throws.
Repo_findById(id) == Err(<<"store_error", "column id does not exist">>)
Repo_delete(id) == Err(<<"store_error", "column id does not exist">>)

\* BaseRepository.deleteBy({account_id}): the rows that remain, and rowCount
Repo_deleteBy(accountId) ==
    [remaining |-> { r \in store : r.account_id # accountId },
     rowCount |-> Cardinality({ r \in store : r.account_id = accountId })]

\* findByDateRange with completed_at < $3 in place of <=
Repo_findByDateRange_ExclusiveEnd(accountId, startDate, endDate) ==
    LET rows == { r \in store : /\ r.account_id = accountId
                                /\ r.completed_at >= startDate
                                /\ r.completed_at < endDate }
    IN  { [i \in 1..Len(o) |-> fromDatabaseRow(o[i])] :
            o \in OrderBy(rows, <<Desc("completed_at")>>) }

\* PuzzleRepository.findByDateRange: the set of results the query may give
Repo_findByDateRange(accountId, startDate, endDate) ==
    LET rows == { r \in store : /\ r.account_id = accountId
                                /\ r.completed_at >= startDate
                                /\ r.completed_at <= endDate }
    IN  { [i \in 1..Len(o) |-> fromDatabaseRow(o[i])] :
            o \in OrderBy(rows, <<Desc("completed_at")>>) }

\* DATE(completed_at), and CURRENT_DATE, as day numbers
DateOf(timestamp) == timestamp \div TicksPerDay
CurrentDate == DateOf(now)

\* SUM(col) over a set of rows
RECURSIVE SumRows(_, _)
SumRows(rows, col) ==
    IF rows = {} THEN 0
    ELSE LET r == CHOOSE x \in rows : TRUE
         IN  r[col] + SumRows(rows \ {r}, col)

\* PuzzleRepository.getDailyStats: GROUP BY DATE(completed_at) over the rows
\* with completed_at >= CURRENT_DATE - INTERVAL 'days days', ORDER BY date
\* DESC; avg_hints is Math.round(parseFloat(AVG(hint_count)))
Repo_getDailyStats(accountId, days) ==
    LET rows == { r \in store :
                    /\ r.account_id = accountId
                    /\ r.completed_at >= (CurrentDate - days) * TicksPerDay }
        group(d) == { r \in rows : DateOf(r.completed_at) = d }
        groups == { [date |-> d] : d \in { DateOf(r.completed_at) : r \in rows } }
        ordered == CHOOSE o \in OrderBy(groups, <<Desc("date")>>) : TRUE
    IN  [i \in 1..Len(ordered) |->
            LET g == group(ordered[i].date) IN
            [date |-> ordered[i].date,
             count |-> Cardinality(g),
             total_time |-> SumRows(g, "time_taken"),
             avg_hints |-> RoundDiv(SumRows(g, "hint_count"), Cardinality(g))]]

\* PuzzleRepository.countByAccountId
countByAccountId(accountId, puzzleType, difficulty) ==
    Cardinality({ r \in store :
                    /\ r.account_id = accountId
                    /\ (Truthy(puzzleType) => r.puzzle_type = puzzleType)
                    /\ (Truthy(difficulty) => r.difficulty = difficulty) })

\* PuzzleRepository.findByMaxHints: the set of results the query may give
Repo_findByMaxHints(accountId, maxHints, puzzleType) ==
    LET rows == { r \in store :
                    /\ r.account_id = accountId
                    /\ r.hint_count <= maxHints
                    /\ (Truthy(puzzleType) => r.puzzle_type = puzzleType) }
    IN  { [i \in 1..Len(o) |-> fromDatabaseRow(o[i])] :
            o \in OrderBy(rows, <<Asc("hint_count"), Asc("time_taken")>>) }

\* PuzzleRepository.findByMaxTime: the set of results the query may give
Repo_findByMaxTime(accountId, maxTime, puzzleType) ==
    LET rows == { r \in store :
                    /\ r.account_id = accountId
                    /\ r.time_taken <= maxTime
                    /\ (Truthy(puzzleType) => r.puzzle_type = puzzleType) }
    IN  { [i \in 1..Len(o) |-> fromDatabaseRow(o[i])] :
            o \in OrderBy(rows, <<Asc("time_taken")>>) }

(***************************************************************************)
(* PuzzleService                                                           *)
(***************************************************************************)
\* PuzzleService.addPuzzleCompletion: the reply and the row to insert, if any
addPuzzleCompletionOutcome(accountId, request) ==
    LET rec == fromCompletionRequest(accountId, request)
        errors == validate(rec)
    IN  IF ~AccountIdFormatOk(accountId)
            THEN [reply |-> Err(<<"account_id_format">>), row |-> None]
        ELSE IF accountId \notin accounts
            THEN [reply |-> Err(<<"account_not_found">>), row |-> None]
        ELSE IF errors # <<>>
            THEN [reply |-> Err(<<"validation_failed">> \o errors), row |-> None]
        ELSE [reply |-> Ok(addPuzzleRecord(rec)),
              row |-> Some(addPuzzleRecord(rec))]

addPuzzleCompletion(accountId, request) ==
    LET out == addPuzzleCompletionOutcome(accountId, request) IN
    \* at most MaxRecords records are ever inserted
    /\ out.row # None => nextRecordId <= MaxRecords
    /\ call' = [op |-> "addPuzzleCompletion", accountId |-> accountId,
                request |-> request]
    /\ reply' = out.reply
    /\ locals' = None
    /\ IF out.row = None
          THEN UNCHANGED <<store, nextRecordId, now>>
          ELSE /\ store' = store \cup {out.row[1]}
               /\ nextRecordId' = nextRecordId + 1
               /\ now' = now + 1

\* PuzzleService.getGlobalRanking
Service_getGlobalRanking(puzzleType, difficulty, limit) ==
    IF puzzleType = "" \/ puzzleType = " "
        THEN {Err(<<"puzzle_type_required">>)}
    ELSE LET safeLimit == Min(1000, Max(1, limit)) IN
         { Ok(ranking) :
             ranking \in Repo_getGlobalRanking(puzzleType, difficulty, safeLimit) }

getGlobalRanking(puzzleType, difficulty, limit) ==
    /\ call' = [op |-> "getGlobalRanking", puzzleType |-> puzzleType,
                difficulty |-> difficulty, limit |-> limit]
    /\ reply' \in Service_getGlobalRanking(puzzleType, difficulty, limit)
    /\ locals' = None
    /\ UNCHANGED <<store, nextRecordId, now>>

\* a scan that keeps the last entry of the account instead of the first
RECURSIVE FindEntry_Last(_, _)
FindEntry_Last(ranking, accountId) ==
    IF ranking = <<>> THEN None
    ELSE IF ranking[Len(ranking)].account_id = accountId
            THEN Some(ranking[Len(ranking)])
         ELSE FindEntry_Last(SubSeq(ranking, 1, Len(ranking) - 1), accountId)

\* Array.prototype.find on the ranking: the first entry of the account
RECURSIVE FindEntry(_, _)
FindEntry(ranking, accountId) ==
    IF ranking = <<>> THEN None
    ELSE IF Head(ranking).account_id = accountId THEN Some(Head(ranking))
         ELSE FindEntry(Tail(ranking), accountId)

\* a personal ranking that counts the accounts of the ranking, not its entries
Service_getPersonalRanking_CountAccounts(accountId, puzzleType, difficulty) ==
    IF ~AccountIdFormatOk(accountId)
        THEN {[reply |-> Err(<<"account_id_format">>), locals |-> None]}
    ELSE { [reply |->
              Ok([rank |-> IF FindEntry(globalRanking, accountId) = None
                              THEN None
                           ELSE Some(FindEntry(globalRanking, accountId)[1].rank),
                  total_participants |->
                      Cardinality({ globalRanking[i].account_id :
                                      i \in 1..Len(globalRanking) }),
                  personal_best |-> IF personalRecords = <<>> THEN None
                                    ELSE Some(toJSON(personalRecords[1]))]),
            locals |-> Some(globalRanking)] :
             globalRanking \in Repo_getGlobalRanking(puzzleType, difficulty, 10000),
             personalRecords \in findByAccountId(accountId,
                 [NoOptions EXCEPT !.puzzle_type = puzzleType,
                                   !.difficulty = difficulty,
                                   !.sort_by = "hint_count",
                                   !.sort_order = "ASC",
                                   !.limit = 1]) }

\* PuzzleService.getPersonalRanking: the reply together with the handler's
\* local globalRanking that the reply was computed from
Service_getPersonalRanking(accountId, puzzleType, difficulty) ==
    IF ~AccountIdFormatOk(accountId)
        THEN {[reply |-> Err(<<"account_id_format">>), locals |-> None]}
    ELSE { [reply |->
              Ok([rank |-> IF FindEntry(globalRanking, accountId) = None
                              THEN None
                           ELSE Some(FindEntry(globalRanking, accountId)[1].rank),
                  total_participants |-> Len(globalRanking),
                  personal_best |-> IF personalRecords = <<>> THEN None
                                    ELSE Some(toJSON(personalRecords[1]))]),
            locals |-> Some(globalRanking)] :
             globalRanking \in Repo_getGlobalRanking(puzzleType, difficulty, 10000),
             personalRecords \in findByAccountId(accountId,
                 [NoOptions EXCEPT !.puzzle_type = puzzleType,
                                   !.difficulty = difficulty,
                                   !.sort_by = "hint_count",
                                   !.sort_order = "ASC",
                                   !.limit = 1]) }

getPersonalRanking(accountId, puzzleType, difficulty) ==
    /\ call' = [op |-> "getPersonalRanking", accountId |-> accountId,
                puzzleType |-> puzzleType, difficulty |-> difficulty]
    /\ \E out \in Service_getPersonalRanking(accountId, puzzleType, difficulty) :
          /\ reply' = out.reply
          /\ locals' = out.locals
    /\ UNCHANGED <<store, nextRecordId, now>>

\* getBestRecords that treats an account without records as an error
Service_getBestRecords_RejectEmpty(accountId) ==
    IF ~AccountIdFormatOk(accountId)
        THEN {Err(<<"account_id_format">>)}
    ELSE IF RowsOfAccount(accountId) = {}
        THEN {Err(<<"record_not_found">>)}
    ELSE { Ok([bestTime |-> IF best.bestTime = None THEN None
                            ELSE Some(toJSON(best.bestTime[1])),
               fewestHints |-> IF best.fewestHints = None THEN None
                               ELSE Some(toJSON(best.fewestHints[1])),
               bestByType |-> [k \in DOMAIN best.bestByType
                                 |-> toJSON(best.bestByType[k])],
               bestByDifficulty |-> [k \in DOMAIN best.bestByDifficulty
                                       |-> toJSON(best.bestByDifficulty[k])]]) :
             best \in Repo_getBestRecords(accountId) }

\* PuzzleService.getBestRecords
Service_getBestRecords(accountId) ==
    IF ~AccountIdFormatOk(accountId)
        THEN {Err(<<"account_id_format">>)}
    ELSE { Ok([bestTime |-> IF best.bestTime = None THEN None
                            ELSE Some(toJSON(best.bestTime[1])),
               fewestHints |-> IF best.fewestHints = None THEN None
                               ELSE Some(toJSON(best.fewestHints[1])),
               bestByType |-> [k \in DOMAIN best.bestByType
                                 |-> toJSON(best.bestByType[k])],
               bestByDifficulty |-> [k \in DOMAIN best.bestByDifficulty
                                       |-> toJSON(best.bestByDifficulty[k])]]) :
             best \in Repo_getBestRecords(accountId) }

getBestRecords(accountId) ==
    /\ call' = [op |-> "getBestRecords", accountId |-> accountId]
    /\ reply' \in Service_getBestRecords(accountId)
    /\ locals' = None
    /\ UNCHANGED <<store, nextRecordId, now>>

\* PuzzleService.getPuzzleStats
Service_getPuzzleStats(accountId) ==
    IF ~AccountIdFormatOk(accountId)
        THEN {Err(<<"account_id_format">>)}
    ELSE { Ok(stats) : stats \in calculateStatsByAccountId(accountId) }

getPuzzleStats(accountId) ==
    /\ call' = [op |-> "getPuzzleStats", accountId |-> accountId]
    /\ reply' \in Service_getPuzzleStats(accountId)
    /\ locals' = None
    /\ UNCHANGED <<store, nextRecordId, now>>

\* PuzzleService.deletePuzzleRecord: the reply and the rows that remain
Service_deletePuzzleRecord(accountId, recordId) ==
    LET record == Repo_findById(recordId) IN
    IF ~AccountIdFormatOk(accountId)
        THEN [reply |-> Err(<<"account_id_format">>), remaining |-> store]
    ELSE IF ~record.ok
        THEN [reply |-> record, remaining |-> store]
    ELSE IF record.value = None
        THEN [reply |-> Err(<<"record_not_found">>), remaining |-> store]
    ELSE IF record.value[1].account_id # accountId
        THEN [reply |-> Err(<<"record_not_owned">>), remaining |-> store]
    ELSE [reply |-> Repo_delete(recordId), remaining |-> store]

deletePuzzleRecord(accountId, recordId) ==
    LET out == Service_deletePuzzleRecord(accountId, recordId) IN
    /\ call' = [op |-> "deletePuzzleRecord", accountId |-> accountId,
                recordId |-> recordId]
    /\ reply' = out.reply
    /\ store' = out.remaining
    /\ locals' = None
    /\ UNCHANGED <<nextRecordId, now>>

\* PuzzleService.deleteAllRecords
Service_deleteAllRecords(accountId) ==
    IF ~AccountIdFormatOk(accountId)
        THEN [reply |-> Err(<<"account_id_format">>), remaining |-> store]
    ELSE [reply |-> Ok(Repo_deleteBy(accountId).rowCount),
          remaining |-> Repo_deleteBy(accountId).remaining]

deleteAllRecords(accountId) ==
    LET out == Service_deleteAllRecords(accountId) IN
    /\ call' = [op |-> "deleteAllRecords", accountId |-> accountId]
    /\ reply' = out.reply
    /\ store' = out.remaining
    /\ locals' = None
    /\ UNCHANGED <<nextRecordId, now>>

(***************************************************************************)
(* Middleware, PuzzleController and routes                                 *)
(***************************************************************************)
\* an HTTP response: the status and the data or the error of the envelope
Http(status, payload) == [ok |-> status < 400, status |-> status, value |-> payload]

\* !value in JavaScript, for a string field and for a JSON value
FalsyString(str) == ~Truthy(str)
FalsyJson(v) == v.kind = "undefined" \/ (v.kind = "number" /\ v.num = 0)

\* validateRequiredFields(['puzzle_type', 'difficulty', 'time_taken',
\* 'hint_count']): the fields with !req.body[field], in that order
validateRequiredFields(body) ==
    (IF FalsyString(body.puzzle_type) THEN <<"puzzle_type">> ELSE <<>>)
    \o (IF FalsyString(body.difficulty) THEN <<"difficulty">> ELSE <<>>)
    \o (IF FalsyJson(body.time_taken) THEN <<"time_taken">> ELSE <<>>)
    \o (IF FalsyJson(body.hint_count) THEN <<"hint_count">> ELSE <<>>)

\* validateNumberRange(fieldName, min, max): TRUE when the request goes on
validateNumberRange(body, fieldName, min, max) ==
    body[fieldName].kind # "undefined" =>
        (body[fieldName].num >= min /\ body[fieldName].num <= max)

\* the error messages that contain the phrases the controller looks for
NotFoundWording == {"account_not_found", "record_not_found"}
InvalidWording == {"account_id_format"}
ValidationWording == {"validation_failed"}
RequiredWording == {"account_id_required", "puzzle_type_required",
                    "difficulty_required"}

\* the catch block of addCompletion: the status for a thrown message
addCompletionStatus(error) ==
    IF \E i \in DOMAIN error : error[i] \in NotFoundWording THEN 404
    ELSE IF \E i \in DOMAIN error :
                error[i] \in InvalidWording \cup ValidationWording
                              \cup RequiredWording
        THEN 400
    ELSE 500

\* PuzzleController.addCompletion: the response and the row to insert
Controller_addCompletion(accountId, body) ==
    IF \/ FalsyString(body.puzzle_type) \/ FalsyString(body.difficulty)
       \/ body.time_taken.kind = "undefined" \/ body.hint_count.kind = "undefined"
        THEN [reply |-> Http(400, <<"fields_required">>), row |-> None]
    ELSE LET completionData ==
                 [puzzle_type |-> body.puzzle_type,
                  difficulty |-> body.difficulty,
                  time_taken |-> body.time_taken.num,
                  hint_count |-> body.hint_count.num,
                  completed_at |-> body.completed_at]
             out == addPuzzleCompletionOutcome(accountId, completionData)
         IN  IF out.reply.ok
                 THEN [reply |-> Http(201, out.reply.value), row |-> out.row]
             ELSE [reply |-> Http(addCompletionStatus(out.reply.error),
                                  out.reply.error),
                   row |-> None]

\* router.post('/:account_id', validateRequiredFields, validateNumberRange
\* for time_taken and for hint_count, puzzleController.addCompletion)
Route_postCompletion(accountId, body) ==
    IF validateRequiredFields(body) # <<>>
        THEN [reply |-> Http(400, <<"required_fields_missing">>
                                    \o validateRequiredFields(body)),
              row |-> None]
    ELSE IF ~validateNumberRange(body, "time_taken", 0, 86400)
        THEN [reply |-> Http(400, <<"out_of_range", "time_taken">>), row |-> None]
    ELSE IF ~validateNumberRange(body, "hint_count", 0, 100)
        THEN [reply |-> Http(400, <<"out_of_range", "hint_count">>), row |-> None]
    ELSE Controller_addCompletion(accountId, body)

postCompletion(accountId, body) ==
    LET out == Route_postCompletion(accountId, body) IN
    /\ out.row # None => nextRecordId <= MaxRecords
    /\ call' = [op |-> "postCompletion", accountId |-> accountId, body |-> body]
    /\ reply' = out.reply
    /\ locals' = None
    /\ IF out.row = None
          THEN UNCHANGED <<store, nextRecordId, now>>
          ELSE /\ store' = store \cup {out.row[1]}
               /\ nextRecordId' = nextRecordId + 1
               /\ now' = now + 1

\* a Date difference in milliseconds becomes one in ticks: 365 days
OneYear == 365 * TicksPerDay

\* PuzzleService.getRecordsByDateRange
Service_getRecordsByDateRange(accountId, startDate, endDate) ==
    IF ~AccountIdFormatOk(accountId)
        THEN {Err(<<"account_id_format">>)}
    ELSE IF startDate > endDate
        THEN {Err(<<"start_after_end">>)}
    ELSE IF endDate - startDate > OneYear
        THEN {Err(<<"range_over_one_year">>)}
    ELSE { Ok([i \in 1..Len(records) |-> toJSON(records[i])]) :
             records \in Repo_findByDateRange(accountId, startDate, endDate) }

getRecordsByDateRange(accountId, startDate, endDate) ==
    /\ call' = [op |-> "getRecordsByDateRange", accountId |-> accountId,
                startDate |-> startDate, endDate |-> endDate]
    /\ reply' \in Service_getRecordsByDateRange(accountId, startDate, endDate)
    /\ locals' = None
    /\ UNCHANGED <<store, nextRecordId, now>>

\* getDailyStats that hands days to the repository as it is
Service_getDailyStats_Unclamped(accountId, days) ==
    IF ~AccountIdFormatOk(accountId)
        THEN Err(<<"account_id_format">>)
    ELSE Ok(Repo_getDailyStats(accountId, days))

\* PuzzleService.getDailyStats
Service_getDailyStats(accountId, days) ==
    IF ~AccountIdFormatOk(accountId)
        THEN Err(<<"account_id_format">>)
    ELSE LET safeDays == Min(365, Max(1, days)) IN
         Ok(Repo_getDailyStats(accountId, safeDays))

getDailyStats(accountId, days) ==
    /\ call' = [op |-> "getDailyStats", accountId |-> accountId, days |-> days]
    /\ reply' = Service_getDailyStats(accountId, days)
    /\ locals' = IF Service_getDailyStats(accountId, days).ok
                     THEN Some([current_date |-> CurrentDate]) ELSE None
    /\ UNCHANGED <<store, nextRecordId, now>>

\* A JavaScript number that may be NaN: <<>> is NaN, <<n>> the integer n
NaN == <<>>
JsMax(a, b) == IF a = NaN \/ b = NaN THEN NaN ELSE <<Max(a[1], b[1])>>
JsMin(a, b) == IF a = NaN \/ b = NaN THEN NaN ELSE <<Min(a[1], b[1])>>
JsMinus(a, b) == IF a = NaN \/ b = NaN THEN NaN ELSE <<a[1] - b[1]>>
JsTimes(a, b) == IF a = NaN \/ b = NaN THEN NaN ELSE <<a[1] * b[1]>>

\* value || fallback for a number: NaN and 0 are falsy
OrElse(value, fallback) ==
    IF value = NaN \/ value = <<0>> THEN fallback ELSE value[1]

\* Math.max(1, Math.floor(offset / limit) + 1) without the "+ 1"
ServicePage_FromZero(offset, limit) == Max(1, offset \div limit)

\* the page that getPuzzleRecords recomputes:
\* Math.max(1, Math.floor((options.offset || 0) / (options.limit || 10)) + 1)
ServicePage(offset, limit) == Max(1, (offset \div limit) + 1)

\* PuzzleService.getPuzzleRecords: the possible replies, each with the query
\* options handed to findByAccountId
Service_getPuzzleRecords(accountId, options) ==
    IF ~AccountIdFormatOk(accountId)
        THEN {[reply |-> Err(<<"account_id_format">>), locals |-> None]}
    ELSE IF accountId \notin accounts
        THEN {[reply |-> Err(<<"account_not_found">>), locals |-> None]}
    ELSE LET page == ServicePage(OrElse(options.offset, 0),
                                 OrElse(options.limit, 10))
             limit == Min(100, Max(1, OrElse(options.limit, 10)))
             offset == (page - 1) * limit
             total == countByAccountId(accountId, options.puzzle_type,
                                       options.difficulty)
             queryOptions == [options EXCEPT !.limit = limit, !.offset = offset]
         IN  { [reply |-> Ok([records |-> [i \in 1..Len(records)
                                             |-> toJSON(records[i])],
                              total |-> total, page |-> page, limit |-> limit]),
                locals |-> Some(queryOptions)] :
                 records \in findByAccountId(accountId, queryOptions) }

\* parseInt of a query-string value
parseInt(v) == IF v.kind = "string" THEN <<v.num>> ELSE NaN

\* a destructuring default: const { page = '1' } = req.query
WithDefault(v, default) == IF v.kind = "undefined" THEN JStr(default) ELSE v

\* the catch block of getRecords: the status for a thrown message
getRecordsStatus(error) ==
    IF \E i \in DOMAIN error : error[i] \in NotFoundWording THEN 404
    ELSE IF \E i \in DOMAIN error : error[i] \in InvalidWording THEN 400
    ELSE 500

\* Math.ceil(a / b) for a >= 0, b > 0
CeilDiv(a, b) == (a + b - 1) \div b

\* PuzzleController.getRecords (without date_from and date_to)
Controller_getRecords(accountId, query) ==
    LET page == WithDefault(query.page, 1)
        limit == WithDefault(query.limit, 10)
        clamped == JsMin(<<100>>, JsMax(<<1>>, parseInt(limit)))
        options ==
            [puzzle_type |-> query.puzzle_type,
             difficulty |-> query.difficulty,
             limit |-> clamped,
             offset |-> JsTimes(JsMinus(JsMax(<<1>>, parseInt(page)), <<1>>),
                                clamped),
             sort_by |-> IF query.sort_by = Undefined THEN "completed_at"
                         ELSE query.sort_by,
             sort_order |-> IF query.sort_order \in {"ASC", "asc", "Asc"}
                            THEN "ASC" ELSE "DESC",
             date_from |-> None, date_to |-> None]
    IN  { IF out.reply.ok
              THEN [reply |-> Http(200,
                        [data |-> out.reply.value.records,
                         pagination |->
                            [currentPage |-> out.reply.value.page,
                             totalItems |-> out.reply.value.total,
                             itemsPerPage |-> out.reply.value.limit,
                             totalPages |-> CeilDiv(out.reply.value.total,
                                                    out.reply.value.limit)]]),
                    locals |-> out.locals]
          ELSE [reply |-> Http(getRecordsStatus(out.reply.error),
                               out.reply.error),
                locals |-> out.locals] :
            out \in Service_getPuzzleRecords(accountId, options) }

getRecords(accountId, query) ==
    /\ call' = [op |-> "getRecords", accountId |-> accountId, query |-> query]
    /\ \E out \in Controller_getRecords(accountId, query) :
          /\ reply' = out.reply
          /\ locals' = out.locals
    /\ UNCHANGED <<store, nextRecordId, now>>

\* getLowHintRecords that refuses maxHints <= 0
Service_getLowHintRecords_RejectZero(accountId, maxHints, puzzleType) ==
    IF ~AccountIdFormatOk(accountId)
        THEN {[reply |-> Err(<<"account_id_format">>), locals |-> None]}
    ELSE IF maxHints <= 0
        THEN {[reply |-> Err(<<"max_hints_negative">>), locals |-> None]}
    ELSE { [reply |-> Ok([i \in 1..Len(records) |-> toJSON(records[i])]),
            locals |-> Some(records)] :
             records \in Repo_findByMaxHints(accountId, maxHints, puzzleType) }

\* PuzzleService.getLowHintRecords: the possible replies, each with the rows
\* that the repository returned when it was queried
Service_getLowHintRecords(accountId, maxHints, puzzleType) ==
    IF ~AccountIdFormatOk(accountId)
        THEN {[reply |-> Err(<<"account_id_format">>), locals |-> None]}
    ELSE IF maxHints < 0
        THEN {[reply |-> Err(<<"max_hints_negative">>), locals |-> None]}
    ELSE { [reply |-> Ok([i \in 1..Len(records) |-> toJSON(records[i])]),
            locals |-> Some(records)] :
             records \in Repo_findByMaxHints(accountId, maxHints, puzzleType) }

getLowHintRecords(accountId, maxHints, puzzleType) ==
    /\ call' = [op |-> "getLowHintRecords", accountId |-> accountId,
                maxHints |-> maxHints, puzzleType |-> puzzleType]
    /\ \E out \in Service_getLowHintRecords(accountId, maxHints, puzzleType) :
          /\ reply' = out.reply
          /\ locals' = out.locals
    /\ UNCHANGED <<store, nextRecordId, now>>

\* PuzzleService.getFastRecords
Service_getFastRecords(accountId, maxTime, puzzleType) ==
    IF ~AccountIdFormatOk(accountId)
        THEN {[reply |-> Err(<<"account_id_format">>), locals |-> None]}
    ELSE IF maxTime <= 0
        THEN {[reply |-> Err(<<"max_time_not_positive">>), locals |-> None]}
    ELSE { [reply |-> Ok([i \in 1..Len(records) |-> toJSON(records[i])]),
            locals |-> Some(records)] :
             records \in Repo_findByMaxTime(accountId, maxTime, puzzleType) }

getFastRecords(accountId, maxTime, puzzleType) ==
    /\ call' = [op |-> "getFastRecords", accountId |-> accountId,
                maxTime |-> maxTime, puzzleType |-> puzzleType]
    /\ \E out \in Service_getFastRecords(accountId, maxTime, puzzleType) :
          /\ reply' = out.reply
          /\ locals' = out.locals
    /\ UNCHANGED <<store, nextRecordId, now>>

\* PuzzleRecord.calculateStats applied to an array of records
calculateStatsCall(records) ==
    /\ call' = [op |-> "calculateStats", records |-> records]
    /\ reply' = Ok(calculateStats(records))
    /\ locals' = None
    /\ UNCHANGED <<store, nextRecordId, now>>

(***************************************************************************)
(* The DELETE routes                                                       *)
(***************************************************************************)
\* the second path segment of DELETE /api/puzzle/:account_id/<segment>: the
\* word "all", which spells no number, or the digits of a record id
AllSegment == JText
DeleteSegments == {AllSegment} \cup { JStr(n) : n \in 1..(MaxRecords + 1) }

\* the record_id property of the request body that validateInteger reads:
\* left out, a number, or a text that is no number
DeleteBodies == {JAbsent, JNum(1), JText}
DeleteRequests == AccountIds \X DeleteSegments \X DeleteBodies

\* validateInteger('record_id'): passes unless req.body.record_id is given
\* and Number(value) is not an integer
validateInteger(value) == value.kind \in {"undefined", "number", "string"}

\* the messages for which err.message.includes('권한') holds
PermissionWording == {"record_not_owned"}

\* the catch block of deleteRecord: the status for a thrown message
deleteRecordStatus(error) ==
    IF \E i \in DOMAIN error : error[i] \in NotFoundWording THEN 404
    ELSE IF \E i \in DOMAIN error :
                error[i] \in PermissionWording \cup InvalidWording
        THEN 403
    ELSE 500

\* PuzzleController.deleteRecord: the response and the rows that remain
Controller_deleteRecord(accountId, record_id) ==
    IF parseInt(record_id) = NaN
        THEN [reply |-> Http(400, <<"record_id_invalid">>), remaining |-> store,
              handler |-> "deleteRecord"]
    ELSE LET out == Service_deletePuzzleRecord(accountId, parseInt(record_id)[1])
         IN  IF out.reply.ok
                 THEN [reply |-> IF out.reply.value
                                     THEN Http(200, <<"record_deleted">>)
                                     ELSE Http(500, <<"delete_failed">>),
                       remaining |-> out.remaining, handler |-> "deleteRecord"]
             ELSE [reply |-> Http(deleteRecordStatus(out.reply.error),
                                  out.reply.error),
                   remaining |-> out.remaining, handler |-> "deleteRecord"]

\* the catch block of deleteAllRecords: the status for a thrown message
deleteAllRecordsStatus(error) ==
    IF \E i \in DOMAIN error : error[i] \in InvalidWording THEN 400 ELSE 500

\* PuzzleController.deleteAllRecords
Controller_deleteAllRecords(accountId) ==
    LET out == Service_deleteAllRecords(accountId) IN
    IF out.reply.ok
        THEN [reply |-> Http(200, [deleted_count |-> out.reply.value]),
              remaining |-> out.remaining, handler |-> "deleteAllRecords"]
    ELSE [reply |-> Http(deleteAllRecordsStatus(out.reply.error),
                         out.reply.error),
          remaining |-> out.remaining, handler |-> "deleteAllRecords"]

\* the DELETE routes in the order of their registration; a route whose path
\* has the parameter :record_id matches every segment
DeleteRoutes == <<"/:account_id/:record_id", "/:account_id/all">>
RouteMatches(route, segment) ==
    route = "/:account_id/:record_id" \/ segment = AllSegment

\* the router: the first registered route whose path matches handles the
\* request; its handlers answer without calling next()
Route_delete(accountId, segment, bodyRecordId) ==
    LET first == CHOOSE i \in DOMAIN DeleteRoutes :
                    /\ RouteMatches(DeleteRoutes[i], segment)
                    /\ \A j \in 1..(i - 1) : ~RouteMatches(DeleteRoutes[j], segment)
    IN  IF DeleteRoutes[first] = "/:account_id/:record_id"
            THEN IF ~validateInteger(bodyRecordId)
                     THEN [reply |-> Http(400, <<"not_an_integer", "record_id">>),
                           remaining |-> store, handler |-> "validateInteger"]
                 ELSE Controller_deleteRecord(accountId, segment)
        ELSE Controller_deleteAllRecords(accountId)

deleteRequest(accountId, segment, bodyRecordId) ==
    LET out == Route_delete(accountId, segment, bodyRecordId) IN
    /\ call' = [op |-> "DELETE", accountId |-> accountId, segment |-> segment,
                body |-> bodyRecordId, handler |-> out.handler]
    /\ reply' = out.reply
    /\ store' = out.remaining
    /\ locals' = None
    /\ UNCHANGED <<nextRecordId, now>>

(***************************************************************************)
(* The generic entry points of PuzzleController                            *)
(***************************************************************************)
\* the data of a generic create or update request
UpdateData == { [time_taken |-> 1], [hint_count |-> 50] }

\* an update that writes the given fields into the record with that id
Controller_update_Apply(id, data) ==
    [reply |-> Http(200, <<"updated">>),
     remaining |-> { IF r.record_id = id
                         THEN [f \in DOMAIN r |-> IF f \in DOMAIN data
                                                      THEN data[f] ELSE r[f]]
                         ELSE r : r \in store }]

\* PuzzleController.update (override): always 403, nothing is written
Controller_update(id, data) ==
    [reply |-> Http(403, <<"records_not_updatable">>), remaining |-> store]

\* PuzzleController.create (override): always 403, nothing is written
Controller_create(data) ==
    [reply |-> Http(403, <<"use_addCompletion">>), remaining |-> store]

updateRecord(id, data) ==
    LET out == Controller_update(id, data) IN
    /\ call' = [op |-> "update", id |-> id, data |-> data]
    /\ reply' = out.reply
    /\ store' = out.remaining
    /\ locals' = None
    /\ UNCHANGED <<nextRecordId, now>>

createRecord(data) ==
    LET out == Controller_create(data) IN
    /\ call' = [op |-> "create", data |-> data]
    /\ reply' = out.reply
    /\ store' = out.remaining
    /\ locals' = None
    /\ UNCHANGED <<nextRecordId, now>>

(***************************************************************************)
(* The read path of PuzzleService                                          *)
(***************************************************************************)
\* findRecentRecords without its ORDER BY
Repo_findRecentRecords_Unordered(accountId, limit) ==
    { [i \in 1..Len(Limit(o, limit)) |-> fromDatabaseRow(Limit(o, limit)[i])] :
        o \in OrderBy(RowsOfAccount(accountId), <<>>) }

\* PuzzleRepository.findRecentRecords: the set of results the query may give
Repo_findRecentRecords(accountId, limit) ==
    { [i \in 1..Len(Limit(o, limit)) |-> fromDatabaseRow(Limit(o, limit)[i])] :
        o \in OrderBy(RowsOfAccount(accountId), <<Desc("completed_at")>>) }

\* PuzzleService.getRecentRecords
Service_getRecentRecords(accountId, limit) ==
    IF ~AccountIdFormatOk(accountId)
        THEN {Err(<<"account_id_format">>)}
    ELSE LET safeLimit == Min(100, Max(1, limit)) IN
         { Ok([i \in 1..Len(records) |-> toJSON(records[i])]) :
             records \in Repo_findRecentRecords(accountId, safeLimit) }

getRecentRecords(accountId, limit) ==
    /\ call' = [op |-> "getRecentRecords", accountId |-> accountId,
                limit |-> limit]
    /\ reply' \in Service_getRecentRecords(accountId, limit)
    /\ locals' = None
    /\ UNCHANGED <<store, nextRecordId, now>>

\* PuzzleService.getPuzzleRecords
getPuzzleRecords(accountId, options) ==
    /\ call' = [op |-> "getPuzzleRecords", accountId |-> accountId,
                options |-> options]
    /\ \E out \in Service_getPuzzleRecords(accountId, options) :
          /\ reply' = out.reply
          /\ locals' = out.locals
    /\ UNCHANGED <<store, nextRecordId, now>>

\* the days that may pass while the service runs
MaxDaysPassing == 1

\* a day passes: CURRENT_DATE and new Date() move on
passDay ==
    /\ now < StartTime + MaxDaysPassing * TicksPerDay
    /\ now' = now + TicksPerDay
    /\ UNCHANGED <<store, nextRecordId, call, reply, locals>>

\* submissions of the read path: two records with the same hint_count and
\* a record of the day before that differs from both in every column
QuerySubmissions ==
    { Submission(AccountA, Request("chess_puzzle", "easy", 120, 0)),
      Submission(AccountA, Request("chess_puzzle", "easy", 80, 0)),
      Submission(AccountA, RequestAt("chess_puzzle", "hard", 90, 2,
                                     StartTime - TicksPerDay)) }

\* the options of a listing: the first page of two records
ListingOptions ==
    [NoOptions EXCEPT !.limit = <<2>>, !.offset = <<0>>,
                      !.sort_by = "completed_at", !.sort_order = "DESC"]

(***************************************************************************)
(* PuzzleRecord.getHintScore                                               *)
(***************************************************************************)
\* the difficulty strings that scores are computed for: the four known
\* levels in several spellings, unknown ones, and a name that every
\* JavaScript object inherits
DifficultyInputs ==
    {"easy", "medium", "hard", "expert", "EASY", "Medium", "HARD", "Expert",
     "unknown", "normal", "constructor"}
HintCountInputs == 0..100

\* String.prototype.toLowerCase on the strings above
toLowerCase(str) ==
    CASE str \in {"EASY"} -> "easy"
      [] str \in {"Medium"} -> "medium"
      [] str \in {"HARD"} -> "hard"
      [] str \in {"Expert"} -> "expert"
      [] OTHER -> str

\* the difficultyMultiplier table of getHintScore, in tenths
difficultyMultiplier == [easy |-> 10, medium |-> 15, hard |-> 20, expert |-> 30]

\* difficultyMultiplier[key] || 1.0, in tenths: an own property, the value
\* inherited from Object.prototype (an object or a function, which is truthy
\* and is no number: NaN in the arithmetic that follows), or 1.0
MultiplierOf(key) ==
    IF key \in DOMAIN difficultyMultiplier THEN <<difficultyMultiplier[key]>>
    ELSE IF key \in ObjectPrototypeKeys THEN NaN
    ELSE <<10>>

\* PuzzleRecord.getHintScore:
\* Math.max(0, Math.round((baseScore - penalty) * multiplier))
getHintScore(rec) ==
    LET multiplier == MultiplierOf(toLowerCase(rec.difficulty))
        baseScore == 100
        penalty == rec.hint_count * 5
    IN  IF multiplier = NaN THEN NaN
        ELSE JsMax(<<0>>, <<RoundDiv((baseScore - penalty) * multiplier[1], 10)>>)

getHintScoreCall(difficulty, hintCount) ==
    /\ call' = [op |-> "getHintScore", difficulty |-> difficulty,
                hint_count |-> hintCount]
    /\ reply' = Ok(getHintScore([difficulty |-> difficulty,
                                 hint_count |-> hintCount]))
    /\ locals' = None
    /\ UNCHANGED <<store, nextRecordId, now>>

(***************************************************************************)
(* Sorting of the record listing                                           *)
(***************************************************************************)
\* the sort_by and sort_order of GET /api/puzzle/:account_id that callers
\* send: left out, the documented columns, a column that is not offered,
\* and directions in several spellings
SortByArgs == {Undefined, "completed_at", "hint_count", "time_taken", "record_id"}
SortOrderArgs == {Undefined, "ASC", "asc", "DESC", "sideways"}
SortingArgs ==
    { <<AccountA, [Query(Undefined, JAbsent, JAbsent)
                      EXCEPT !.sort_by = sortBy, !.sort_order = sortOrder]>> :
        sortBy \in SortByArgs, sortOrder \in SortOrderArgs }

(***************************************************************************)
(* The date-range endpoint                                                 *)
(***************************************************************************)
\* the start_date and end_date of GET /api/puzzle/:account_id/date-range:
\* left out, no date, or the spelling of an instant
DateQueryArgs ==
    {JAbsent, JText, JStr(StartTime - OneYear - 1), JStr(StartTime - TicksPerDay),
     JStr(StartTime), JStr(StartTime + TicksPerDay)}
DateRangeRequests ==
    ({AccountA} \X DateQueryArgs \X DateQueryArgs)
        \cup {<<AccountLower, JStr(StartTime), JStr(StartTime + TicksPerDay)>>}

\* the messages for which err.message.includes('최대') holds
MaximumWording == {"range_over_one_year"}

\* the catch block of getRecordsByDateRange: the status for a thrown message
getRecordsByDateRangeStatus(error) ==
    IF \E i \in DOMAIN error : error[i] \in InvalidWording \cup MaximumWording
        THEN 400
    ELSE 500

\* PuzzleController.getRecordsByDateRange: the possible responses
Controller_getRecordsByDateRange(accountId, start_date, end_date) ==
    IF start_date.kind = "undefined" \/ end_date.kind = "undefined"
        THEN {Http(400, <<"dates_required">>)}
    ELSE IF parseInt(start_date) = NaN \/ parseInt(end_date) = NaN
        THEN {Http(400, <<"date_format">>)}
    ELSE { IF out.ok THEN Http(200, out.value)
           ELSE Http(getRecordsByDateRangeStatus(out.error), out.error) :
             out \in Service_getRecordsByDateRange(accountId,
                         parseInt(start_date)[1], parseInt(end_date)[1]) }

getDateRangeRequest(accountId, start_date, end_date) ==
    /\ call' = [op |-> "GET date-range", accountId |-> accountId,
                start_date |-> start_date, end_date |-> end_date]
    /\ reply' \in Controller_getRecordsByDateRange(accountId, start_date, end_date)
    /\ locals' = None
    /\ UNCHANGED <<store, nextRecordId, now>>

(***************************************************************************)
(* Queries that read the store more than once, one await at a time         *)
(***************************************************************************)
\* the reply of a call whose promise is not settled yet
Pending == [ok |-> FALSE, error |-> <<"pending">>]

\* another caller's addPuzzleCompletion while a query is in flight: the
\* store changes, the query's own call, locals and reply do not
submitMeanwhile(accountId, request) ==
    LET out == addPuzzleCompletionOutcome(accountId, request) IN
    /\ out.row # None
    /\ nextRecordId <= MaxRecords
    /\ store' = store \cup {out.row[1]}
    /\ nextRecordId' = nextRecordId + 1
    /\ now' = now + 1
    /\ UNCHANGED <<call, reply, locals>>

\* another caller's deleteAllRecords while a query is in flight
deleteAllMeanwhile(accountId) ==
    /\ Service_deleteAllRecords(accountId).reply.ok
    /\ store' = Service_deleteAllRecords(accountId).remaining
    /\ UNCHANGED <<nextRecordId, now, call, reply, locals>>

\* getPersonalRanking up to its first await: the account id is checked and
\* the ranking query is answered into the local globalRanking
beginPersonalRanking(accountId, puzzleType, difficulty) ==
    /\ call' = [op |-> "getPersonalRanking", accountId |-> accountId,
                puzzleType |-> puzzleType, difficulty |-> difficulty]
    /\ IF ~AccountIdFormatOk(accountId)
          THEN reply' = Err(<<"account_id_format">>) /\ locals' = None
          ELSE /\ reply' = Pending
               /\ \E globalRanking \in
                        Repo_getGlobalRanking(puzzleType, difficulty, 10000) :
                     locals' = Some(globalRanking)
    /\ UNCHANGED <<store, nextRecordId, now>>

\* getPersonalRanking from its second await: the personal-best query is
\* answered from the store as it is now, and the result is put together
finishPersonalRanking ==
    /\ call.op = "getPersonalRanking"
    /\ reply = Pending
    /\ \E personalRecords \in findByAccountId(call.accountId,
                 [NoOptions EXCEPT !.puzzle_type = call.puzzleType,
                                   !.difficulty = call.difficulty,
                                   !.sort_by = "hint_count",
                                   !.sort_order = "ASC",
                                   !.limit = 1]) :
          reply' =
              Ok([rank |-> IF FindEntry(locals[1], call.accountId) = None
                              THEN None
                           ELSE Some(FindEntry(locals[1], call.accountId)[1].rank),
                  total_participants |-> Len(locals[1]),
                  personal_best |-> IF personalRecords = <<>> THEN None
                                    ELSE Some(toJSON(personalRecords[1]))])
    /\ UNCHANGED <<store, nextRecordId, now, call, locals>>

\* PuzzleService.getBestRecords up to the first await of
\* PuzzleRepository.getBestRecords: the account id is checked and the
\* bestTime query is answered
beginBestRecords(accountId) ==
    /\ call' = [op |-> "getBestRecords", accountId |-> accountId]
    /\ IF ~AccountIdFormatOk(accountId)
          THEN reply' = Err(<<"account_id_format">>) /\ locals' = None
          ELSE /\ reply' = Pending
               /\ \E bestTime \in FirstRow(RowsOfAccount(accountId),
                                           <<Asc("time_taken")>>) :
                     locals' = Some([awaited |-> 1, bestTime |-> bestTime])
    /\ UNCHANGED <<store, nextRecordId, now>>

\* the second await: the fewestHints query
fewestHintsOfBestRecords ==
    /\ call.op = "getBestRecords" /\ reply = Pending /\ locals[1].awaited = 1
    /\ \E fewestHints \in FirstRow(RowsOfAccount(call.accountId),
                                   <<Asc("hint_count"), Asc("time_taken")>>) :
          locals' = Some([awaited |-> 2, bestTime |-> locals[1].bestTime,
                          fewestHints |-> fewestHints])
    /\ UNCHANGED <<store, nextRecordId, now, call, reply>>

\* the third await: the bestByType query
bestByTypeOfBestRecords ==
    /\ call.op = "getBestRecords" /\ reply = Pending /\ locals[1].awaited = 2
    /\ \E rows \in DistinctOn(RowsOfAccount(call.accountId), "puzzle_type") :
          locals' = Some([awaited |-> 3, bestTime |-> locals[1].bestTime,
                          fewestHints |-> locals[1].fewestHints,
                          bestByType |-> AssignRows(<<>>, rows, "puzzle_type")])
    /\ UNCHANGED <<store, nextRecordId, now, call, reply>>

\* the fourth await: the bestByDifficulty query, and the result put together
\* by the repository and converted by the service
finishBestRecords ==
    /\ call.op = "getBestRecords" /\ reply = Pending /\ locals[1].awaited = 3
    /\ \E rows \in DistinctOn(RowsOfAccount(call.accountId), "difficulty") :
          LET best == [bestTime |-> locals[1].bestTime,
                       fewestHints |-> locals[1].fewestHints,
                       bestByType |-> locals[1].bestByType,
                       bestByDifficulty |-> AssignRows(<<>>, rows, "difficulty")]
          IN  reply' =
                Ok([bestTime |-> IF best.bestTime = None THEN None
                                 ELSE Some(toJSON(best.bestTime[1])),
                    fewestHints |-> IF best.fewestHints = None THEN None
                                    ELSE Some(toJSON(best.fewestHints[1])),
                    bestByType |-> [k \in DOMAIN best.bestByType
                                      |-> toJSON(best.bestByType[k])],
                    bestByDifficulty |-> [k \in DOMAIN best.bestByDifficulty
                                            |-> toJSON(best.bestByDifficulty[k])]])
    /\ locals' = None
    /\ UNCHANGED <<store, nextRecordId, now, call>>

(***************************************************************************)
(* Filters of the record listing                                           *)
(***************************************************************************)
\* the options of getPuzzleRecords as the controller builds them: a puzzle
\* type or none, a window of completion times or none, and the offset of
\* pages 1 to 3 for limits 1 and 2
FilteredListingOptions ==
    { [ListingOptions EXCEPT !.puzzle_type = puzzleType,
                             !.date_from = dateFrom, !.date_to = dateTo,
                             !.limit = <<limit>>,
                             !.offset = <<(page - 1) * limit>>] :
        puzzleType \in {Undefined, "chess_puzzle"},
        dateFrom \in {None, Some(2)}, dateTo \in {None, Some(2)},
        limit \in 1..2, page \in 1..3 }

(***************************************************************************)
(* Specifications                                                          *)
(***************************************************************************)
SubmitRanking ==
    \E s \in RankingSubmissions : addPuzzleCompletion(s.accountId, s.request)

SubmitBest ==
    \E s \in BestSubmissions : addPuzzleCompletion(s.accountId, s.request)

GlobalRanking ==
    \E args \in GlobalRankingArgs : getGlobalRanking(args[1], args[2], args[3])

PersonalRanking ==
    \E args \in PersonalRankingArgs : getPersonalRanking(args[1], args[2], args[3])

BestRecords == \E accountId \in AccountIds : getBestRecords(accountId)

PuzzleStats == \E accountId \in AccountIds : getPuzzleStats(accountId)

\* the ranking engine: the global leaderboard
NextGlobalRanking == SubmitRanking \/ GlobalRanking
SpecGlobalRanking == Init /\ [][NextGlobalRanking]_vars

\* the ranking engine: the personal view
NextPersonalRanking == SubmitRanking \/ PersonalRanking
SpecPersonalRanking == Init /\ [][NextPersonalRanking]_vars

\* the best-record resolver and the aggregator
NextBest == SubmitBest \/ BestRecords \/ PuzzleStats
SpecBest == Init /\ [][NextBest]_vars

CalculateStats == \E records \in StatsInputs : calculateStatsCall(records)

\* the aggregator on its own
NextStats == CalculateStats
SpecStats == Init /\ [][NextStats]_vars

SubmitService ==
    \E s \in ServiceSubmissions : addPuzzleCompletion(s.accountId, s.request)

PostCompletion ==
    \E s \in PostRequests : postCompletion(s.accountId, s.request)

DeleteRecord ==
    \E accountId \in AccountIds, recordId \in 1..(MaxRecords + 1) :
        deletePuzzleRecord(accountId, recordId)

DeleteAll == \E accountId \in AccountIds : deleteAllRecords(accountId)

\* the validator and the write path: submissions and deletions
NextSubmit == SubmitService \/ PostCompletion \/ DeleteRecord \/ DeleteAll
SpecSubmit == Init /\ [][NextSubmit]_vars

SubmitWindow ==
    \E s \in WindowSubmissions : addPuzzleCompletion(s.accountId, s.request)

RecordsByDateRange ==
    \E args \in DateRangeArgs :
        getRecordsByDateRange(args[1], args[2][1], args[2][2])

DailyStats == \E args \in DailyStatsArgs : getDailyStats(args[1], args[2])

\* the windowed query layer: date ranges and day buckets
NextWindow == SubmitWindow \/ RecordsByDateRange \/ DailyStats
SpecWindow == InitWindow /\ [][NextWindow]_vars

SubmitListing ==
    \E s \in ListingSubmissions : addPuzzleCompletion(s.accountId, s.request)

GetRecords == \E args \in ListingArgs : getRecords(args[1], args[2])

\* the record listing and its pagination
NextListing == SubmitListing \/ GetRecords
SpecListing == Init /\ [][NextListing]_vars

SubmitFilters ==
    \E s \in FilterSubmissions : addPuzzleCompletion(s.accountId, s.request)

LowHintRecords ==
    \E args \in LowHintArgs : getLowHintRecords(args[1], args[2], args[3])

FastRecords == \E args \in FastArgs : getFastRecords(args[1], args[2], args[3])

\* the low-hint and fast-record filters
NextFilters == SubmitFilters \/ LowHintRecords \/ FastRecords
SpecFilters == Init /\ [][NextFilters]_vars

DeleteRequest ==
    \E args \in DeleteRequests : deleteRequest(args[1], args[2], args[3])

\* the DELETE routes over the records of two accounts
NextDelete == SubmitFilters \/ DeleteRequest \/ DeleteAll
SpecDelete == Init /\ [][NextDelete]_vars

UpdateRecord ==
    \E id \in 1..MaxRecords, data \in UpdateData : updateRecord(id, data)

CreateRecord == \E data \in UpdateData : createRecord(data)

\* the operations that write, or are asked to write, the record store
NextController ==
    \/ PostCompletion
    \/ DeleteRequest
    \/ DeleteAll
    \/ UpdateRecord
    \/ CreateRecord
SpecController == Init /\ [][NextController]_vars

SubmitQueries ==
    \E s \in QuerySubmissions : addPuzzleCompletion(s.accountId, s.request)

PassDay == passDay

\* each query with arguments that it accepts and arguments that it rejects
QueryStats == \E a \in {AccountA, AccountLower} : getPuzzleStats(a)
QueryBest == \E a \in {AccountA, AccountLower} : getBestRecords(a)
QueryGlobalRanking ==
    \E t \in {"chess_puzzle", ""} : getGlobalRanking(t, Undefined, 2)
QueryPersonalRanking ==
    \E a \in {AccountA, AccountLower} :
        getPersonalRanking(a, "chess_puzzle", Undefined)
QueryRecords ==
    \E a \in {AccountA, AccountUnknown} : getPuzzleRecords(a, ListingOptions)
QueryRecent == \E a \in {AccountA, AccountLower} : getRecentRecords(a, 2)
QueryDateRange ==
    \E range \in { <<StartTime, StartTime + TicksPerDay>>,
                   <<StartTime + 1, StartTime>> } :
        getRecordsByDateRange(AccountA, range[1], range[2])
QueryDailyStats == \E a \in {AccountA, AccountLower} : getDailyStats(a, 1)
QueryLowHints ==
    \E maxHints \in {-1, 1} : getLowHintRecords(AccountA, maxHints, Undefined)
QueryFast ==
    \E maxTime \in {0, 100} : getFastRecords(AccountA, maxTime, Undefined)

\* the read path against submissions and the passing of days
NextQueries ==
    \/ SubmitQueries
    \/ PassDay
    \/ QueryStats
    \/ QueryBest
    \/ QueryGlobalRanking
    \/ QueryPersonalRanking
    \/ QueryRecords
    \/ QueryRecent
    \/ QueryDateRange
    \/ QueryDailyStats
    \/ QueryLowHints
    \/ QueryFast
SpecQueries == InitWindow /\ [][NextQueries]_vars

\* the derived queries over stores in which an account has no records
CalculateStatsOfFew ==
    \E records \in { r \in StatsInputs : Len(r) <= 1 } : calculateStatsCall(records)

NextEmpty == SubmitFilters \/ BestRecords \/ PuzzleStats \/ CalculateStatsOfFew
SpecEmpty == Init /\ [][NextEmpty]_vars

HintScore ==
    \E difficulty \in DifficultyInputs, hintCount \in HintCountInputs :
        getHintScoreCall(difficulty, hintCount)

\* the hint score of every difficulty and hint count
NextHintScore == HintScore
SpecHintScore == Init /\ [][NextHintScore]_vars

GetRecordsSorted == \E args \in SortingArgs : getRecords(args[1], args[2])

\* the record listing with a sort column and a direction
NextSorting == SubmitListing \/ GetRecordsSorted
SpecSorting == Init /\ [][NextSorting]_vars

DateRangeRequest ==
    \E args \in DateRangeRequests :
        getDateRangeRequest(args[1], args[2], args[3])

\* the date-range endpoint over the records of an account
NextDateRange == SubmitQueries \/ DateRangeRequest
SpecDateRange == InitWindow /\ [][NextDateRange]_vars

SubmitMeanwhile ==
    \E s \in FilterSubmissions : submitMeanwhile(s.accountId, s.request)

DeleteAllMeanwhile == \E accountId \in {AccountA, AccountB} : deleteAllMeanwhile(accountId)

BeginPersonalRanking ==
    \E args \in PersonalRankingArgs :
        beginPersonalRanking(args[1], args[2], args[3])

FinishPersonalRanking == finishPersonalRanking

\* getPersonalRanking interleaved with the writes of other callers
NextPersonalRankingRace ==
    \/ SubmitMeanwhile
    \/ DeleteAllMeanwhile
    \/ BeginPersonalRanking
    \/ FinishPersonalRanking
SpecPersonalRankingRace == Init /\ [][NextPersonalRankingRace]_vars

BeginBestRecords == \E accountId \in AccountIds : beginBestRecords(accountId)
FewestHintsOfBestRecords == fewestHintsOfBestRecords
BestByTypeOfBestRecords == bestByTypeOfBestRecords
FinishBestRecords == finishBestRecords

\* getBestRecords interleaved with the writes of other callers
NextBestRace ==
    \/ SubmitMeanwhile
    \/ DeleteAllMeanwhile
    \/ BeginBestRecords
    \/ FewestHintsOfBestRecords
    \/ BestByTypeOfBestRecords
    \/ FinishBestRecords
SpecBestRace == Init /\ [][NextBestRace]_vars

GetFilteredRecords ==
    \E options \in FilteredListingOptions : getPuzzleRecords(AccountA, options)

\* the record listing with filters and pages
NextFilteredListing == SubmitListing \/ GetFilteredRecords
SpecFilteredListing == Init /\ [][NextFilteredListing]_vars

Next ==
    \/ SubmitRanking
    \/ SubmitBest
    \/ GlobalRanking
    \/ PersonalRanking
    \/ BestRecords
    \/ PuzzleStats
    \/ CalculateStats
    \/ SubmitService
    \/ PostCompletion
    \/ DeleteRecord
    \/ DeleteAll
    \/ SubmitWindow
    \/ RecordsByDateRange
    \/ DailyStats
    \/ SubmitListing
    \/ GetRecords
    \/ LowHintRecords
    \/ FastRecords
    \/ SubmitFilters
    \/ DeleteRequest
    \/ UpdateRecord
    \/ CreateRecord
    \/ PassDay
    \/ QueryRecords
    \/ QueryRecent
    \/ HintScore
    \/ GetRecordsSorted
    \/ SubmitQueries
    \/ DateRangeRequest
    \/ SubmitMeanwhile
    \/ DeleteAllMeanwhile
    \/ BeginPersonalRanking
    \/ FinishPersonalRanking
    \/ BeginBestRecords
    \/ FewestHintsOfBestRecords
    \/ BestByTypeOfBestRecords
    \/ FinishBestRecords
    \/ GetFilteredRecords
    \/ CalculateStatsOfFew

Spec == Init /\ [][Next]_vars

(***************************************************************************)
(* Properties of the ranking engine                                        *)
(***************************************************************************)
\* (a.hint_count, a.time_taken) <= (b.hint_count, b.time_taken)
KeyLeq(a, b) ==
    \/ a.hint_count < b.hint_count
    \/ a.hint_count = b.hint_count /\ a.time_taken <= b.time_taken

Key(r) == <<r.hint_count, r.time_taken>>

GlobalRankingReturned == call.op = "getGlobalRanking" /\ reply.ok

\* the stored records that the last ranking call asked for
Matching ==
    { r \in store :
        /\ r.puzzle_type = call.puzzleType
        /\ (call.difficulty \notin {Undefined, ""} => r.difficulty = call.difficulty) }

\* C1: the sequence returned by getGlobalRanking is sorted: an entry that
\* precedes another has the lexicographically smaller or equal
\* (hint_count, time_taken); three records (0,120), (2,90), (0,80) of one
\* type come back as (0,80), (0,120), (2,90).
C1_RankingSorted ==
    GlobalRankingReturned =>
        /\ \A i, j \in 1..Len(reply.value) :
              i < j => KeyLeq(reply.value[i], reply.value[j])
        /\ ( /\ Cardinality(Matching) = 3
             /\ { Key(r) : r \in Matching } = {<<0, 120>>, <<2, 90>>, <<0, 80>>}
             /\ call.limit >= 3 )
           => [i \in 1..Len(reply.value) |-> Key(reply.value[i])]
                 = <<<<0, 80>>, <<0, 120>>, <<2, 90>>>>

C1_Witness ==
    /\ GlobalRankingReturned
    /\ Len(reply.value) = 3
    /\ [i \in 1..3 |-> Key(reply.value[i])] = <<<<0, 80>>, <<0, 120>>, <<2, 90>>>>
    /\ \E r \in store : r.record_id = 1 /\ Key(r) = <<0, 120>>
    /\ \E r \in store : r.record_id = 2 /\ Key(r) = <<2, 90>>
    /\ \E r \in store : r.record_id = 3 /\ Key(r) = <<0, 80>>

\* C2: in every result of getGlobalRanking the entry at position i carries
\* rank i, so the ranks are 1..n without gap or repeat, also among tied
\* records and when the limit cuts the result short.
C2_RankIsPosition ==
    GlobalRankingReturned =>
        \A i \in 1..Len(reply.value) : reply.value[i].rank = i

\* tied records, and a limit below the number of matching records
C2_Witness ==
    /\ GlobalRankingReturned
    /\ call.limit = 2
    /\ Cardinality(Matching) = 3
    /\ Len(reply.value) = 2
    /\ Key(reply.value[1]) = Key(reply.value[2])
    /\ reply.value[1].account_id # reply.value[2].account_id

\* limit clamped into [1, 1000]
ClampedLimit ==
    IF call.limit < 1 THEN 1 ELSE IF call.limit > 1000 THEN 1000 ELSE call.limit

SameRecord(entry, r) ==
    /\ entry.account_id = r.account_id
    /\ entry.hint_count = r.hint_count
    /\ entry.time_taken = r.time_taken
    /\ entry.completed_at = r.completed_at

\* C3: getGlobalRanking returns one entry per stored record: its entries map
\* one-to-one to distinct stored records of the requested type (and of the
\* requested difficulty, when one is given), and there are min(L, N) of them,
\* L the limit clamped into [1, 1000] and N the number of matching records.
C3_OneEntryPerMatchingRecord ==
    GlobalRankingReturned =>
        LET n == Len(reply.value) IN
        /\ n = IF ClampedLimit < Cardinality(Matching) THEN ClampedLimit
               ELSE Cardinality(Matching)
        /\ \E f \in [1..n -> Matching] :
              /\ \A i, j \in 1..n : i # j => f[i] # f[j]
              /\ \A i \in 1..n : SameRecord(reply.value[i], f[i])

\* two records of one account are both listed, a record of another
\* difficulty is in the store and not listed
C3_Witness ==
    /\ GlobalRankingReturned
    /\ call.difficulty = "easy"
    /\ Len(reply.value) = 2
    /\ reply.value[1].account_id = reply.value[2].account_id
    /\ \E r \in store : r.puzzle_type = call.puzzleType /\ r.difficulty = "hard"

PersonalRankingReturned == call.op = "getPersonalRanking" /\ reply.ok

\* the account's stored records that the last personal-ranking call asked for
MatchingOwn == { r \in Matching : r.account_id = call.accountId }

\* C4: personal_best of getPersonalRanking is the account's matching record
\* with the lexicographically smallest (hint_count, time_taken): absent when
\* the account has no matching record, and otherwise no matching record of
\* the account has fewer hints, or as many hints and a smaller time.
C4_PersonalBestIsLexMin ==
    PersonalRankingReturned =>
        IF MatchingOwn = {} THEN reply.value.personal_best = None
        ELSE /\ reply.value.personal_best # None
             /\ reply.value.personal_best[1] \in MatchingOwn
             /\ \A r \in MatchingOwn : KeyLeq(reply.value.personal_best[1], r)

\* the ranking that the handler materialized (its local globalRanking)
Scanned == locals[1]

OwnPositions ==
    { i \in 1..Len(Scanned) : Scanned[i].account_id = call.accountId }

\* C5: rank is none exactly when the materialized ranking (limit 10000) has
\* no entry of the account; otherwise it is the rank of the first entry of
\* the account, which is the smallest rank of any of the account's entries.
C5_RankIsFirstOwnEntry ==
    PersonalRankingReturned =>
        /\ Scanned \in Repo_getGlobalRanking(call.puzzleType, call.difficulty, 10000)
        /\ (reply.value.rank = None) <=> (OwnPositions = {})
        /\ reply.value.rank # None =>
              \E i \in OwnPositions :
                  /\ \A j \in OwnPositions : i <= j
                  /\ reply.value.rank[1] = Scanned[i].rank
                  /\ \A j \in OwnPositions : Scanned[i].rank <= Scanned[j].rank

\* the account holds two entries, and neither is the first of the ranking
C5_Witness ==
    /\ PersonalRankingReturned
    /\ Cardinality(OwnPositions) = 2
    /\ reply.value.rank = Some(2)
    /\ Len(Scanned) = 3

\* C6: total_participants is the number of entries of the scanned ranking,
\* min(N, 10000) for N matching stored records; two records of one account
\* count as two participants.
C6_TotalParticipantsCountsRecords ==
    PersonalRankingReturned =>
        /\ reply.value.total_participants = Len(Scanned)
        /\ reply.value.total_participants =
              IF Cardinality(Matching) < 10000 THEN Cardinality(Matching) ELSE 10000

\* three matching records of two accounts
C6_Witness ==
    /\ PersonalRankingReturned
    /\ reply.value.total_participants = 3
    /\ Cardinality({ r.account_id : r \in Matching }) = 2

(***************************************************************************)
(* Properties of the best-record resolver and the aggregator               *)
(***************************************************************************)
BestRecordsReturned == call.op = "getBestRecords" /\ reply.ok

\* the stored records of the account that the last call named
Own == { r \in store : r.account_id = call.accountId }

\* C7: for an account with at least one record, fewestHints has the minimum
\* hint_count of the account's records and, among the records with that
\* hint_count, the minimum time_taken.
C7_FewestHintsIsLexMin ==
    (BestRecordsReturned /\ Own # {}) =>
        /\ reply.value.fewestHints # None
        /\ reply.value.fewestHints[1] \in Own
        /\ \A r \in Own :
              /\ reply.value.fewestHints[1].hint_count <= r.hint_count
              /\ r.hint_count = reply.value.fewestHints[1].hint_count
                    => reply.value.fewestHints[1].time_taken <= r.time_taken

\* two records share the minimum hint count, the slower one was stored first
C7_Witness ==
    /\ BestRecordsReturned
    /\ reply.value.fewestHints # None
    /\ reply.value.fewestHints[1].record_id = 2
    /\ \E r \in Own : /\ r.record_id = 1
                      /\ r.hint_count = reply.value.fewestHints[1].hint_count
                      /\ r.time_taken > reply.value.fewestHints[1].time_taken

\* C8: the keys of bestByType are exactly the distinct puzzle_type values of
\* the account's records and the keys of bestByDifficulty exactly its
\* distinct difficulty values; the record under a key belongs to that group
\* and minimizes (hint_count, time_taken) within it.
C8_BestPerGroup ==
    BestRecordsReturned =>
        /\ DOMAIN reply.value.bestByType = { r.puzzle_type : r \in Own }
        /\ DOMAIN reply.value.bestByDifficulty = { r.difficulty : r \in Own }
        /\ \A k \in DOMAIN reply.value.bestByType :
              /\ reply.value.bestByType[k] \in Own
              /\ reply.value.bestByType[k].puzzle_type = k
              /\ \A r \in Own : r.puzzle_type = k
                                   => KeyLeq(reply.value.bestByType[k], r)
        /\ \A k \in DOMAIN reply.value.bestByDifficulty :
              /\ reply.value.bestByDifficulty[k] \in Own
              /\ reply.value.bestByDifficulty[k].difficulty = k
              /\ \A r \in Own : r.difficulty = k
                                   => KeyLeq(reply.value.bestByDifficulty[k], r)

\* C9: for an account with at least one record, bestTime is a record of the
\* account with the minimum time_taken of its records, and that time equals
\* best_time of the statistics computed for the same account and records.
C9_BestTimeAgreesWithStats ==
    (BestRecordsReturned /\ Own # {}) =>
        /\ reply.value.bestTime # None
        /\ reply.value.bestTime[1] \in Own
        /\ \A r \in Own : reply.value.bestTime[1].time_taken <= r.time_taken
        /\ \A stats \in calculateStatsByAccountId(call.accountId) :
              stats.best_time = reply.value.bestTime[1].time_taken

\* the fastest record is neither the first stored nor the one with the
\* fewest hints
C9_Witness ==
    /\ BestRecordsReturned
    /\ Cardinality(Own) = 3
    /\ reply.value.bestTime # None
    /\ reply.value.bestTime[1].record_id = 2
    /\ reply.value.bestTime[1] # reply.value.fewestHints[1]

PuzzleStatsReturned == call.op = "getPuzzleStats" /\ reply.ok

\* the sum of one field over the groups of a by_type or by_difficulty map
RECURSIVE SumOverGroups(_, _, _)
SumOverGroups(groups, keys, field) ==
    IF keys = {} THEN 0
    ELSE LET k == CHOOSE x \in keys : TRUE
         IN  groups[k][field] + SumOverGroups(groups, keys \ {k}, field)

\* C10: for a non-empty record sequence calculateStats partitions the
\* records by type and by difficulty: the counts of by_type and those of
\* by_difficulty each add up to total_puzzles, and the total_hints of the
\* groups of either map add up to the overall total_hints.
C10_GroupsPartitionRecords ==
    (PuzzleStatsReturned /\ reply.value.total_puzzles > 0) =>
        LET st == reply.value IN
        /\ SumOverGroups(st.by_type, DOMAIN st.by_type, "count") = st.total_puzzles
        /\ SumOverGroups(st.by_difficulty, DOMAIN st.by_difficulty, "count")
              = st.total_puzzles
        /\ SumOverGroups(st.by_type, DOMAIN st.by_type, "total_hints")
              = st.total_hints
        /\ SumOverGroups(st.by_difficulty, DOMAIN st.by_difficulty, "total_hints")
              = st.total_hints


(***************************************************************************)
(* Properties of the aggregator                                            *)
(***************************************************************************)
StatsComputed == call.op = "calculateStats" /\ Len(call.records) > 0

\* the sum of one field over the records at the positions idx
RECURSIVE FieldTotal(_, _, _)
FieldTotal(records, idx, field) ==
    IF idx = {} THEN 0
    ELSE LET i == CHOOSE x \in idx : TRUE
         IN  records[i][field] + FieldTotal(records, idx \ {i}, field)

\* avg is total / count rounded to the nearest integer, a half rounded up
RoundedHalfUp(avg, total, count) ==
    /\ (2 * avg - 1) * count <= 2 * total
    /\ 2 * total < (2 * avg + 1) * count

\* t is the smallest time_taken of the records at the positions idx
LeastTime(t, records, idx) ==
    /\ \E i \in idx : records[i].time_taken = t
    /\ \A i \in idx : t <= records[i].time_taken

\* C11: for every non-empty record sequence calculateStats returns
\* average_time and average_hints as the totals divided by the count and
\* rounded half up, best_time as the minimum time_taken, and for each group
\* of by_type and by_difficulty best_time as the minimum time_taken of the
\* group's records and total_hints as the sum of their hint_count.
C11_AveragesAndGroupMinima ==
    StatsComputed =>
        LET st == reply.value
            records == call.records
            all == DOMAIN records
            members(col, k) == { i \in all : records[i][col] = k }
            groupOk(groups, col) ==
                \A k \in DOMAIN groups :
                    /\ members(col, k) # {}
                    /\ LeastTime(groups[k].best_time, records, members(col, k))
                    /\ groups[k].total_hints
                          = FieldTotal(records, members(col, k), "hint_count")
        IN  /\ RoundedHalfUp(st.average_time,
                             FieldTotal(records, all, "time_taken"), Len(records))
            /\ RoundedHalfUp(st.average_hints,
                             FieldTotal(records, all, "hint_count"), Len(records))
            /\ LeastTime(st.best_time, records, all)
            /\ groupOk(st.by_type, "puzzle_type")
            /\ groupOk(st.by_difficulty, "difficulty")

\* an average that falls on a half and is rounded up, with a group whose
\* fastest record is not its first
C11_Witness ==
    /\ StatsComputed
    /\ Len(call.records) = 2
    /\ 2 * FieldTotal(call.records, DOMAIN call.records, "hint_count")
          = (2 * reply.value.average_hints - 1) * Len(call.records)
    /\ "easy" \in DOMAIN reply.value.by_difficulty
    /\ reply.value.by_difficulty["easy"].count = 2
    /\ reply.value.by_difficulty["easy"].best_time < call.records[1].time_taken

\* every arrangement of the records of the last call
Arrangements(records) ==
    { p \in [DOMAIN records -> DOMAIN records] :
        \A i, j \in DOMAIN records : i # j => p[i] # p[j] }

\* C12: calculateStats depends only on the multiset of its input records:
\* every permutation of the records of a call yields the summary that the
\* call returned.
C12_StatsIgnoreOrder ==
    StatsComputed =>
        \A p \in Arrangements(call.records) :
            calculateStats([i \in DOMAIN call.records |-> call.records[p[i]]])
                = reply.value

\* three records of one group whose fastest is the middle one
C12_Witness ==
    /\ StatsComputed
    /\ Len(call.records) = 3
    /\ \A i \in 1..3 : call.records[i].difficulty = "easy"
    /\ call.records[2].time_taken < call.records[1].time_taken
    /\ call.records[2].time_taken < call.records[3].time_taken
    /\ reply.value.by_difficulty["easy"].best_time = call.records[2].time_taken

(***************************************************************************)
(* Properties of the record validator and the write path                   *)
(***************************************************************************)
\* the position of each check in the order account_id, puzzle_type,
\* difficulty, time_taken, hint_count, completed_at
CheckOfError ==
    [account_id_required |-> 1, account_id_format |-> 1,
     puzzle_type_required |-> 2, puzzle_type_too_long |-> 2,
     difficulty_required |-> 3, difficulty_too_long |-> 3,
     time_taken_negative |-> 4, time_taken_too_long |-> 4,
     hint_count_negative |-> 5, hint_count_too_many |-> 5,
     completed_at_future |-> 6]

\* the candidate of a submission c (a service call or a POST request): the
\* account and the field values as numbers
Candidate(c) ==
    IF c.op = "postCompletion"
        THEN [account_id |-> c.accountId,
              puzzle_type |-> c.body.puzzle_type,
              difficulty |-> c.body.difficulty,
              time_taken |-> c.body.time_taken.num,
              hint_count |-> c.body.hint_count.num,
              completed_at |-> c.body.completed_at]
    ELSE [account_id |-> c.accountId,
          puzzle_type |-> c.request.puzzle_type,
          difficulty |-> c.request.difficulty,
          time_taken |-> c.request.time_taken,
          hint_count |-> c.request.hint_count,
          completed_at |-> c.request.completed_at]

WellFormedAccount(id) == Len(id) = 12 /\ \A i \in 1..Len(id) : id[i] \in UpperAlnum

\* the checks (by position) that the candidate x violates at time clock
ViolatedChecks(x, clock) ==
    (IF WellFormedAccount(x.account_id) THEN {} ELSE {1})
    \cup (IF x.puzzle_type \in {"", Undefined} \/ Len(x.puzzle_type) > 50
             THEN {2} ELSE {})
    \cup (IF x.difficulty \in {"", Undefined} \/ Len(x.difficulty) > 20
             THEN {3} ELSE {})
    \cup (IF x.time_taken < 0 \/ x.time_taken > 86400 THEN {4} ELSE {})
    \cup (IF x.hint_count < 0 \/ x.hint_count > 100 THEN {5} ELSE {})
    \cup (IF x.completed_at # None /\ x.completed_at[1] > clock THEN {6} ELSE {})

IsSubmission(c) == c.op \in {"addPuzzleCompletion", "postCompletion"}

\* the reply r to the submission c reports a validation failure
IsValidationFailure(c, r) ==
    /\ ~r.ok
    /\ IF c.op = "postCompletion" THEN r.status = 400
       ELSE r.error[1] \in {"account_id_format", "validation_failed"}

\* a stored record is within the bounds of the data model
RecordWithinBounds(r) ==
    /\ r.time_taken >= 0 /\ r.time_taken <= 86400
    /\ r.hint_count >= 0 /\ r.hint_count <= 100
    /\ WellFormedAccount(r.account_id)
    /\ r.puzzle_type # "" /\ Len(r.puzzle_type) <= 50
    /\ r.difficulty # "" /\ Len(r.difficulty) <= 20

\* C13 as stated: after any sequence of submissions and deletions every
\* stored record is within the bounds of the data model and was completed
\* no later than it was created; a submission that violates a bound fails
\* with a validation error and leaves the store unchanged.
C13_ViolationIsValidationError ==
    [][ /\ \A r \in store' : RecordWithinBounds(r)
        /\ \A r \in store' \ store : r.completed_at <= now
        /\ (IsSubmission(call') /\ ViolatedChecks(Candidate(call'), now) # {})
              => (IsValidationFailure(call', reply') /\ store' = store) ]_vars

\* C13 (amended): after any sequence of submissions and deletions every
\* stored record is within the bounds of the data model and was completed
\* no later than it was created; a submission that violates a bound fails
\* and leaves the store unchanged, and it fails with a validation error
\* whenever its account exists or its account_id is malformed.
C13_StoredRecordsWithinBounds ==
    [][ /\ \A r \in store' : RecordWithinBounds(r)
        /\ \A r \in store' \ store : r.completed_at <= now
        /\ (IsSubmission(call') /\ ViolatedChecks(Candidate(call'), now) # {})
              => /\ ~reply'.ok
                 /\ store' = store
                 /\ (call'.accountId \in accounts
                        \/ ~WellFormedAccount(call'.accountId))
                       => IsValidationFailure(call', reply') ]_vars

\* a submission with hint_count = 150 for an existing account has been
\* refused while the store holds records
C13_Witness ==
    /\ call.op = "addPuzzleCompletion"
    /\ call.accountId = AccountA
    /\ call.request.hint_count = 150
    /\ call.request.time_taken = 30
    /\ ~reply.ok
    /\ Cardinality(store) = 2

\* the errors that the model validation reported for the last submission
ValidationReported ==
    /\ IsSubmission(call)
    /\ ~reply.ok
    /\ IF call.op = "postCompletion" THEN reply.value[1] = "validation_failed"
       ELSE reply.error[1] = "validation_failed"

Reported ==
    Tail(IF call.op = "postCompletion" THEN reply.value ELSE reply.error)

\* C14 as stated: validation applies its checks in the order account_id,
\* puzzle_type and difficulty, time_taken, hint_count, completed_at and the
\* first failing check wins: the reported error names only the earliest
\* violated check.
C14_FirstFailureWins ==
    ValidationReported =>
        /\ Len(Reported) = 1
        /\ \A k \in ViolatedChecks(Candidate(call), now) :
              CheckOfError[Reported[1]] <= k

\* C14 (amended): addPuzzleCompletion checks the account_id format first
\* and reports it alone; the model validation then applies the checks in
\* the order puzzle_type, difficulty, time_taken, hint_count, completed_at
\* and reports every violated check, in that order, so that the first error
\* it names is the earliest violated check.
C14_EveryFailureReportedInOrder ==
    /\ (call.op = "addPuzzleCompletion" /\ ~WellFormedAccount(call.accountId))
          => reply = Err(<<"account_id_format">>)
    /\ ValidationReported =>
          /\ { CheckOfError[Reported[i]] : i \in DOMAIN Reported }
                = ViolatedChecks(Candidate(call), now)
          /\ \A i, j \in DOMAIN Reported :
                i < j => CheckOfError[Reported[i]] < CheckOfError[Reported[j]]

\* a candidate with time_taken and hint_count both out of range
C14_Witness ==
    /\ ValidationReported
    /\ call.op = "addPuzzleCompletion"
    /\ ViolatedChecks(Candidate(call), now) = {4, 5}
    /\ Len(Reported) = 2

\* C15: the lower bounds are inclusive on the submission path: a POST for
\* an existing account with hint_count = 0 or time_taken = 0 and otherwise
\* valid fields passes the middleware and the model validation and is
\* persisted.
C15_ZeroIsAccepted ==
    (/\ call.op = "postCompletion"
     /\ call.accountId \in accounts
     /\ call.body.time_taken.kind # "undefined"
     /\ call.body.hint_count.kind # "undefined"
     /\ ViolatedChecks(Candidate(call), now) = {}
     /\ (call.body.time_taken.num = 0 \/ call.body.hint_count.num = 0))
        => /\ reply.status = 201
           /\ reply.value \in store

(***************************************************************************)
(* Properties of the windowed query layer                                  *)
(***************************************************************************)
DateRangeAnswered ==
    call.op = "getRecordsByDateRange" /\ WellFormedAccount(call.accountId)

\* the records of the calling account, as the service serializes them
OwnRecords == { toJSON(r) : r \in { x \in store : x.account_id = call.accountId } }

\* C16: getRecordsByDateRange fails with a validation error and returns no
\* records whenever start > end or end - start exceeds 365 days; when
\* start <= end and the span is at most 365 days (exactly 365 days is
\* allowed) it returns exactly the account's records with
\* start <= completed_at <= end, each once.
C16_DateRangeBounds ==
    DateRangeAnswered =>
        IF \/ call.startDate > call.endDate
           \/ call.endDate - call.startDate > 365 * TicksPerDay
            THEN /\ ~reply.ok
                 /\ reply.error[1] \in {"start_after_end", "range_over_one_year"}
        ELSE /\ reply.ok
             /\ { reply.value[i] : i \in DOMAIN reply.value }
                   = { r \in OwnRecords : /\ call.startDate <= r.completed_at
                                          /\ r.completed_at <= call.endDate }
             /\ \A i, j \in DOMAIN reply.value :
                   i # j => reply.value[i] # reply.value[j]

\* a span of exactly 365 days that returns a record completed at its start,
\* while the account has a record outside the span
C16_Witness ==
    /\ DateRangeAnswered
    /\ call.endDate - call.startDate = 365 * TicksPerDay
    /\ reply.ok
    /\ \E i \in DOMAIN reply.value : reply.value[i].completed_at = call.startDate
    /\ \E r \in OwnRecords : r.completed_at < call.startDate

DailyStatsAnswered ==
    call.op = "getDailyStats" /\ WellFormedAccount(call.accountId)

\* days clamped into [1, 365]
ClampedDays == IF call.days < 1 THEN 1 ELSE IF call.days > 365 THEN 365 ELSE call.days

\* the account's records on day d, within the window of the last days
OwnInWindow ==
    { r \in OwnRecords : DateOf(r.completed_at) >= CurrentDate - ClampedDays }
OwnOnDay(d) == { r \in OwnInWindow : DateOf(r.completed_at) = d }

\* the sum of one field over a set of records
RECURSIVE TotalOf(_, _)
TotalOf(records, field) ==
    IF records = {} THEN 0
    ELSE LET r == CHOOSE x \in records : TRUE
         IN  r[field] + TotalOf(records \ {r}, field)

\* C17: getDailyStats uses days clamped into [1, 365] and returns exactly
\* one entry per calendar day of the window (today and the clamped number of
\* days before it) on which the account has a record, and none for any other
\* day; an entry's count is the number of the account's records on that day,
\* total_time the sum of their time_taken and avg_hints their mean
\* hint_count rounded to the nearest integer, so the counts add up to the
\* number of the account's records in the window.
C17_DailyBuckets ==
    DailyStatsAnswered =>
        /\ reply.ok
        /\ { reply.value[i].date : i \in DOMAIN reply.value }
              = { DateOf(r.completed_at) : r \in OwnInWindow }
        /\ \A i, j \in DOMAIN reply.value :
              i # j => reply.value[i].date # reply.value[j].date
        /\ \A i \in DOMAIN reply.value :
              LET e == reply.value[i]
                  on == OwnOnDay(e.date)
              IN  /\ e.count = Cardinality(on)
                  /\ e.total_time = TotalOf(on, "time_taken")
                  /\ RoundedHalfUp(e.avg_hints, TotalOf(on, "hint_count"),
                                   Cardinality(on))
        /\ TotalOf({ [n |-> reply.value[i].count, i |-> i] :
                        i \in DOMAIN reply.value }, "n")
              = Cardinality(OwnInWindow)

\* days = 1000 is clamped to 365: the record of 365 days ago is counted, and
\* one day holds two records whose mean hint_count of 1.5 is rounded to 2
C17_Witness ==
    /\ DailyStatsAnswered
    /\ call.days = 1000
    /\ Len(reply.value) = 2
    /\ reply.value[1].count = 2
    /\ reply.value[1].avg_hints = 2
    /\ reply.value[2].date = CurrentDate - 365

\* a listing request whose page and limit are numbers or left out
ListingAnswered ==
    /\ call.op = "getRecords"
    /\ call.accountId \in accounts
    /\ call.query.page.kind # "text"
    /\ call.query.limit.kind # "text"

\* the requested page (1 when left out) and limit (10 when left out)
RequestedPage == IF call.query.page.kind = "undefined" THEN 1 ELSE call.query.page.num
RequestedLimit ==
    IF call.query.limit.kind = "undefined" THEN 10 ELSE call.query.limit.num

\* L = limit clamped into [1, 100] and P = max(1, page)
ListingLimit ==
    IF RequestedLimit < 1 THEN 1 ELSE IF RequestedLimit > 100 THEN 100
    ELSE RequestedLimit
ListingPage == IF RequestedPage < 1 THEN 1 ELSE RequestedPage

\* the number of the account's records that pass the listing's filter
ListingTotal ==
    Cardinality({ r \in store :
                    /\ r.account_id = call.accountId
                    /\ (call.query.puzzle_type # Undefined
                           => r.puzzle_type = call.query.puzzle_type) })

\* C18: for every requested page and limit the record listing queries the
\* store with limit L = limit clamped into [1, 100] and
\* offset = (P - 1) * L where P = max(1, page), and reports page = P and
\* limit = L, so the page the service recomputes from the offset is the page
\* asked for; the page holds the records from offset + 1 to offset + L.
C18_PaginationArithmetic ==
    ListingAnswered =>
        /\ reply.ok
        /\ locals # None
        /\ locals[1].limit = ListingLimit
        /\ locals[1].offset = (ListingPage - 1) * ListingLimit
        /\ reply.value.pagination.currentPage = ListingPage
        /\ reply.value.pagination.itemsPerPage = ListingLimit
        /\ reply.value.pagination.totalItems = ListingTotal
        /\ LET rest == ListingTotal - (ListingPage - 1) * ListingLimit
           IN  Len(reply.value.data)
                  = (IF rest < 0 THEN 0
                     ELSE IF rest > ListingLimit THEN ListingLimit ELSE rest)

\* the second page of two, with one of three records left for it
C18_Witness ==
    /\ ListingAnswered
    /\ RequestedPage = 2
    /\ RequestedLimit = 2
    /\ ListingTotal = 3
    /\ Len(reply.value.data) = 1
    /\ reply.value.pagination.currentPage = 2

\* the account's records that pass the puzzle type of the last call
OwnOfType ==
    { r \in OwnRecords :
        call.puzzleType \notin {Undefined, ""} => r.puzzle_type = call.puzzleType }

\* the reply lists exactly the records of the set expected, each once
ListsExactly(expected) ==
    /\ reply.ok
    /\ locals # None
    /\ { reply.value[i] : i \in DOMAIN reply.value } = expected
    /\ Len(reply.value) = Cardinality(expected)

\* C19: getLowHintRecords rejects maxHints < 0 and getFastRecords rejects
\* maxTime <= 0 with a validation error before any store query; otherwise
\* getLowHintRecords returns exactly the account's records with
\* hint_count <= maxHints and getFastRecords exactly those with
\* time_taken <= maxTime (of the puzzle type, when one is given): maxHints = 0
\* is accepted and maxTime = 0 is rejected.
C19_ThresholdFilters ==
    /\ (call.op = "getLowHintRecords" /\ WellFormedAccount(call.accountId)) =>
          IF call.maxHints < 0
              THEN reply = Err(<<"max_hints_negative">>) /\ locals = None
          ELSE ListsExactly({ r \in OwnOfType : r.hint_count <= call.maxHints })
    /\ (call.op = "getFastRecords" /\ WellFormedAccount(call.accountId)) =>
          IF call.maxTime <= 0
              THEN reply = Err(<<"max_time_not_positive">>) /\ locals = None
          ELSE ListsExactly({ r \in OwnOfType : r.time_taken <= call.maxTime })

\* maxHints = 0 is accepted and selects some but not all records of the type
C19_Witness ==
    /\ call.op = "getLowHintRecords"
    /\ call.maxHints = 0
    /\ call.puzzleType = "chess_puzzle"
    /\ reply.ok
    /\ Len(reply.value) = 1
    /\ \E r \in OwnOfType : r.hint_count > 0

(***************************************************************************)
(* Properties of deletion                                                  *)
(***************************************************************************)
\* C20: deletePuzzleRecord(accountId, recordId) removes exactly the record
\* with that record_id when it exists and is owned by accountId and leaves
\* every other record unchanged; when no such record exists it fails with a
\* not-found error, and when the record belongs to another account it fails
\* with a distinct ownership error; in both failure cases the store is
\* unchanged.
C20_DeleteOwnedRecordOnly ==
    [][ (call'.op = "deletePuzzleRecord" /\ WellFormedAccount(call'.accountId)) =>
            LET target == { r \in store : r.record_id = call'.recordId } IN
            IF target = {}
                THEN reply' = Err(<<"record_not_found">>) /\ store' = store
            ELSE IF \E r \in target : r.account_id # call'.accountId
                THEN reply' = Err(<<"record_not_owned">>) /\ store' = store
            ELSE reply'.ok /\ store' = store \ target ]_vars

(***************************************************************************)
(* Properties of the DELETE routes                                         *)
(***************************************************************************)
\* C21: a DELETE request to /api/puzzle/:account_id/all is dispatched to
\* deleteAllRecords, which removes exactly the records owned by that
\* account, reports the number removed, and leaves the records of every
\* other account unchanged; it is not captured by the earlier-registered
\* DELETE /:account_id/:record_id route.
C21_DeleteAllIsDispatched ==
    [][ (call'.op = "DELETE" /\ call'.segment = AllSegment
            /\ WellFormedAccount(call'.accountId)) =>
            /\ call'.handler = "deleteAllRecords"
            /\ store' = { r \in store : r.account_id # call'.accountId }
            /\ reply'.ok
            /\ reply'.value.deleted_count =
                  Cardinality({ r \in store : r.account_id = call'.accountId })
      ]_vars

(***************************************************************************)
(* Immutability of records                                                 *)
(***************************************************************************)
\* C22: records are immutable: a record that is present in the store in two
\* states has the same record_id, account_id, puzzle_type, difficulty,
\* time_taken, hint_count and completed_at in both (a step keeps every
\* record whose record_id stays in the store as it is, and a new record
\* takes a record_id that no earlier record had); the generic update and
\* create entry points are rejected and change nothing.
C22_RecordsAreImmutable ==
    [][ /\ \A r \in store : r.record_id < nextRecordId
        /\ \A s \in store' :
              \/ s \in store
              \/ /\ s.record_id >= nextRecordId
                 /\ s.record_id < nextRecordId'
        /\ \A s, t \in store' : s.record_id = t.record_id => s = t
        /\ call'.op \in {"update", "create"} =>
              /\ reply'.status = 403
              /\ store' = store ]_vars

\* an update of a stored record was asked for and the record is still there
C22_Witness ==
    /\ call.op = "update"
    /\ reply.status = 403
    /\ \E r \in store : r.record_id = call.id /\ r.time_taken # 1

(***************************************************************************)
(* Properties of the read path                                             *)
(***************************************************************************)
QueryOps ==
    {"getPuzzleStats", "getBestRecords", "getGlobalRanking",
     "getPersonalRanking", "getPuzzleRecords", "getRecentRecords",
     "getRecordsByDateRange", "getDailyStats", "getLowHintRecords",
     "getFastRecords"}

\* no two records agree in a column that a query sorts by
NoTiedRecords ==
    \A r, s \in store :
        r # s => /\ r.hint_count # s.hint_count
                 /\ r.time_taken # s.time_taken
                 /\ r.completed_at # s.completed_at

\* the query of this step repeats the query answered last, and the current
\* date that the answer was computed from is the same
SameQueryAgain == call' = call
SameDateAgain == call'.op = "getDailyStats" => locals' = locals

IsEmptySummary(stats) ==
    /\ stats.total_puzzles = 0 /\ stats.total_time = 0
    /\ stats.average_time = 0  /\ stats.best_time = 0
    /\ stats.total_hints = 0   /\ stats.average_hints = 0
    /\ DOMAIN stats.by_type = {}
    /\ DOMAIN stats.by_difficulty = {}

WithoutRecords(accountId) ==
    /\ WellFormedAccount(accountId)
    /\ \A r \in store : r.account_id # accountId

\* C24: on an empty record set the derived queries return empty results and
\* do not raise an error: calculateStats of no records yields every count,
\* total, average and best_time equal to zero with empty by_type and
\* by_difficulty maps, and getBestRecords for an account without records
\* yields bestTime and fewestHints absent and empty bestByType and
\* bestByDifficulty.
C24_EmptyIsNotAnError ==
    /\ (call.op = "calculateStats" /\ Len(call.records) = 0) =>
          reply.ok /\ IsEmptySummary(reply.value)
    /\ (call.op = "getPuzzleStats" /\ WithoutRecords(call.accountId)) =>
          reply.ok /\ IsEmptySummary(reply.value)
    /\ (call.op = "getBestRecords" /\ WithoutRecords(call.accountId)) =>
          /\ reply.ok
          /\ reply.value.bestTime = None
          /\ reply.value.fewestHints = None
          /\ DOMAIN reply.value.bestByType = {}
          /\ DOMAIN reply.value.bestByDifficulty = {}

\* getBestRecords answered for an account without records while another
\* account has some
C24_Witness ==
    /\ call.op = "getBestRecords"
    /\ WithoutRecords(call.accountId)
    /\ store # {}
    /\ reply.ok

(***************************************************************************)
(* Properties of the hint score                                            *)
(***************************************************************************)
\* the multiplier of a difficulty in tenths: easy 1.0, medium 1.5, hard
\* 2.0, expert 3.0 in any spelling of upper and lower case, otherwise 1.0
ExpectedMultiplier(difficulty) ==
    CASE difficulty \in {"medium", "Medium"} -> 15
      [] difficulty \in {"hard", "HARD"} -> 20
      [] difficulty \in {"expert", "Expert"} -> 30
      [] OTHER -> 10

\* C25: for every hint_count in 0..100 and every difficulty string,
\* getHintScore equals max(0, 100 - 5 * hint_count) multiplied by the
\* difficulty multiplier (easy 1.0, medium 1.5, hard 2.0, expert 3.0, any
\* other value 1.0, looked up case-insensitively); it is never negative, is
\* 0 for hint_count >= 20, and does not increase when hint_count increases.
C25_HintScoreIsProduct ==
    call.op = "getHintScore" =>
        /\ reply.value # NaN
        /\ reply.value[1] * 10 =
              Max(0, 100 - 5 * call.hint_count) * ExpectedMultiplier(call.difficulty)
        /\ reply.value[1] >= 0
        /\ call.hint_count >= 20 => reply.value[1] = 0
        /\ \A more \in HintCountInputs :
              more > call.hint_count =>
                  LET next == getHintScore([difficulty |-> call.difficulty,
                                            hint_count |-> more])
                  IN  next # NaN /\ next[1] <= reply.value[1]

(***************************************************************************)
(* Properties of the sort options                                          *)
(***************************************************************************)
AllowedSortColumns == {"completed_at", "hint_count", "time_taken"}
AscSpellings == {"ASC", "asc", "Asc"}

\* the options of the store query that the listing issued, if it issued one
StoreQueryIssued == call.op = "getRecords" /\ locals # None

\* C26: record listing sorts only by one of completed_at, hint_count or
\* time_taken, in direction ASC or DESC: a sort_order that is not ASC is
\* treated as DESC, and a sort_by outside the three allowed columns is
\* rejected or replaced by the default completed_at and never reaches the
\* store query.
C26_SortOptionsAreWhitelisted ==
    StoreQueryIssued =>
        /\ locals[1].sort_by \in AllowedSortColumns
        /\ locals[1].sort_order \in {"ASC", "DESC"}
        /\ call.query.sort_order \notin AscSpellings
              => locals[1].sort_order = "DESC"
        /\ call.query.sort_by \notin AllowedSortColumns
              => locals[1].sort_by = "completed_at"

(***************************************************************************)
(* Properties of the date-range endpoint                                   *)
(***************************************************************************)
\* a request with two dates and a well-formed account id that violates the
\* order of the dates, or the limit of 365 days
RangeOrderViolated ==
    /\ call.op = "GET date-range"
    /\ WellFormedAccount(call.accountId)
    /\ call.start_date.kind = "string" /\ call.end_date.kind = "string"
    /\ call.start_date.num > call.end_date.num
RangeSpanViolated ==
    /\ call.op = "GET date-range"
    /\ WellFormedAccount(call.accountId)
    /\ call.start_date.kind = "string" /\ call.end_date.kind = "string"
    /\ call.end_date.num - call.start_date.num > 365 * TicksPerDay

\* C27: in the date-range endpoint both range violations are reported to
\* the caller as the same kind of failure, a validation (client) error: a
\* request with start > end and a request whose span exceeds 365 days both
\* produce the 400 status class, and neither is reported as an internal or
\* store error (500).
C27_RangeViolationsAreClientErrors ==
    (RangeOrderViolated \/ RangeSpanViolated) =>
        reply.status >= 400 /\ reply.status < 500

(***************************************************************************)
(* Consistency of results that are read in several queries                 *)
(***************************************************************************)
\* C28: a PersonalRankingResult is internally consistent when fewer than
\* 10000 records match: rank is none if and only if personal_best is none,
\* and when both are present the ranking entry holding that rank has the
\* same hint_count as personal_best; also when completion submissions or
\* deletions by other callers interleave between the ranking query and the
\* personal-best query that getPersonalRanking issues one after the other.
C28_PersonalRankingConsistent ==
    (call.op = "getPersonalRanking" /\ reply.ok) =>
        /\ (reply.value.rank = None) <=> (reply.value.personal_best = None)
        /\ (reply.value.rank # None /\ reply.value.personal_best # None) =>
              \E i \in 1..Len(locals[1]) :
                  /\ locals[1][i].rank = reply.value.rank[1]
                  /\ locals[1][i].hint_count =
                        reply.value.personal_best[1].hint_count

\* the map has a value with the (hint_count, time_taken) of the record, and
\* no value of the map is lexicographically smaller
SmallestValueMatches(map, record) ==
    \E k \in DOMAIN map :
        /\ Key(map[k]) = Key(record)
        /\ \A other \in DOMAIN map : KeyLeq(map[k], map[other])

\* C29: a BestRecordSet returned by getBestRecords is internally
\* consistent: bestTime is absent if and only if fewestHints is absent,
\* bestByType is empty if and only if bestByDifficulty is empty, and when
\* present fewestHints has the same (hint_count, time_taken) as the
\* lexicographically smallest value of bestByType and of bestByDifficulty;
\* also when record insertions or deletions for the same account interleave
\* between the four store queries that getBestRecords issues in sequence.
C29_BestRecordSetConsistent ==
    (call.op = "getBestRecords" /\ reply.ok) =>
        /\ (reply.value.bestTime = None) <=> (reply.value.fewestHints = None)
        /\ (DOMAIN reply.value.bestByType = {})
              <=> (DOMAIN reply.value.bestByDifficulty = {})
        /\ reply.value.fewestHints # None =>
              /\ SmallestValueMatches(reply.value.bestByType,
                                      reply.value.fewestHints[1])
              /\ SmallestValueMatches(reply.value.bestByDifficulty,
                                      reply.value.fewestHints[1])

(***************************************************************************)
(* Properties of the listing total                                         *)
(***************************************************************************)
\* the account's records that match every filter of the listing
MatchingEveryFilter ==
    { r \in store :
        /\ r.account_id = call.accountId
        /\ (Truthy(call.options.puzzle_type)
               => r.puzzle_type = call.options.puzzle_type)
        /\ (Truthy(call.options.difficulty)
               => r.difficulty = call.options.difficulty)
        /\ (call.options.date_from # None
               => r.completed_at >= call.options.date_from[1])
        /\ (call.options.date_to # None
               => r.completed_at <= call.options.date_to[1]) }

\* C30: in the result of getPuzzleRecords, total equals the number of the
\* account's records that match every filter applied to the listed records
\* (puzzle_type, difficulty, date_from, date_to), so the number of records
\* returned on a page never exceeds total and the pages 1..ceil(total /
\* limit) together list exactly total records: page p holds
\* min(limit, total - (p - 1) * limit) of them.
C30_TotalCountsListedRecords ==
    (call.op = "getPuzzleRecords" /\ reply.ok) =>
        /\ reply.value.total = Cardinality(MatchingEveryFilter)
        /\ Len(reply.value.records) <= reply.value.total
        /\ reply.value.page <= CeilDiv(reply.value.total, reply.value.limit) =>
              Len(reply.value.records) =
                  Min(reply.value.limit,
                      reply.value.total - (reply.value.page - 1) * reply.value.limit)

====
